---- MODULE Spec2Model ----
(***************************************************************************)
(* Collaboration-Canvas: the server's room registry (server/rooms.js), the  *)
(* per-user undo/redo state manager (server/drawing-state.js) and the      *)
(* socket handlers of server/server.js, as one state machine.              *)
(*                                                                         *)
(* Node runs every handler and timer callback to completion on one thread, *)
(* so each handler is one atomic action.                                   *)
(***************************************************************************)
EXTENDS Integers, Sequences, FiniteSets, TLC

\* ------------------------------------------------------------------ bounds
Rooms == {"r1"}
Sockets == {"s1", "s2"}
\* names typed into the join form (client state `userId` of Canvas.jsx)
Names == {"alice"}
\* longest stroke log a stroke event is still admitted to
MaxLog == 2
\* longest redoStack a redo is still applied to
MaxRedoStack == 1
\* outcomes of the random suffix of a stroke id
Suffixes == {"a", "b"}
\* number of clock advances
MaxTicks == 2
\* longest points array of a candidate handed to validateStroke
MaxPoints == 2
\* most cleanup timers pending when removeUser is called directly
MaxTimers == 2
\* most messages a browser has sent that the server has not handled yet
MaxOutbox == 1
\* a browser sends while every browser has fewer than this many messages
\* waiting to be received
MaxInbox == 1

\* -------------------------------------------------------- program constants
\* setTimeout delay of the cleanup check, in milliseconds
GracePeriod == 5 * 60 * 1000
\* the clock advances by half a grace period
TickStep == GracePeriod \div 2

VARIABLES
  rooms,       \* RoomManager.rooms: roomId -> room object
  userStacks,  \* StateManager.userStacks: roomId -> userId -> stacks
  timers,      \* pending setTimeout callbacks, in scheduling order
  clock,       \* Date.now()
  conn,        \* per socket: connection status and the room of its handshake
  last,        \* the handler that ran last, its arguments and what it returned
  undone,      \* history: the latest successful undo and what became of it
  emptySince,  \* history: roomId -> time its member set last became empty
  emitted,     \* the messages the handler that ran last emitted, in order
  clients,     \* per socket: the browser's strokesRef and the two channels
  drafts       \* the two earlier StateManager designs, each with its registry

vars == <<rooms, userStacks, timers, clock, conn, last, undone, emptySince,
          emitted, clients, drafts>>

\* ------------------------------------------------------------- JS values
Undefined == [t |-> "undefined"]
Num(n) == [t |-> "num", v |-> n]
Str(s) == [t |-> "str", v |-> s]
Arr(a) == [t |-> "arr", v |-> a]
Obj(f) == [t |-> "obj", f |-> f]
Point(x, y) == Obj([x |-> Num(x), y |-> Num(y)])
JsNull == [t |-> "null"]
\* the number NaN: typeof is "number", every comparison with it is false
NaN == [t |-> "nan"]

\* property read o.name
Get(o, name) ==
  IF o.t = "obj" /\ name \in DOMAIN o.f THEN o.f[name] ELSE Undefined

\* JS truthiness
Truthy(v) ==
  CASE v.t = "undefined" -> FALSE
    [] v.t = "null" -> FALSE
    [] v.t = "num" -> v.v # 0
    [] v.t = "nan" -> FALSE
    [] v.t = "str" -> v.v # ""
    [] OTHER -> TRUE

EmptyMap == [x \in {} |-> x]

\* the map m without key k (Map.delete)
MapDelete(m, k) == [x \in DOMAIN m \ {k} |-> m[x]]

\* the map m with key k set to v (Map.set)
MapSet(m, k, v) == (k :> v) @@ m

\* Array.prototype.splice(i, 1) on a 1-based sequence
RemoveAt(seq, i) == SubSeq(seq, 1, i - 1) \o SubSeq(seq, i + 1, Len(seq))

\* ------------------------------------------------------------ RoomManager
NewRoom(roomId) ==
  [id |-> roomId, strokes |-> <<>>, cursors |-> EmptyMap, users |-> {},
   createdAt |-> clock]

\* the registry after getRoom(roomId); the room returned is getRoom(R, roomId)[roomId]
getRoom(R, roomId) ==
  IF roomId \in DOMAIN R THEN R ELSE MapSet(R, roomId, NewRoom(roomId))

\* faulty variant: the member is put into a room object made anew
addUserFreshRoom(R, roomId, userId) ==
  MapSet(R, roomId, [NewRoom(roomId) EXCEPT !.users = {userId}])

addUser(R, roomId, userId) ==
  LET R1 == getRoom(R, roomId)
  IN [R1 EXCEPT ![roomId].users = @ \cup {userId}]

\* the cleanup callback removeUser schedules
CleanupTimer(roomId) == [roomId |-> roomId, due |-> clock + GracePeriod]

\* faulty variant: the cached cursor of the user who left is kept
removeUserKeepsCursor(R, T, roomId, userId) ==
  IF roomId \notin DOMAIN R THEN [rooms |-> R, timers |-> T]
  ELSE LET R1 == [R EXCEPT ![roomId].users = @ \ {userId}]
       IN [rooms |-> R1,
           timers |-> IF R1[roomId].users = {}
                      THEN Append(T, CleanupTimer(roomId))
                      ELSE T]

\* removeUser: the registry and the timer queue afterwards
removeUser(R, T, roomId, userId) ==
  IF roomId \notin DOMAIN R THEN [rooms |-> R, timers |-> T]
  ELSE LET R1 == [R EXCEPT ![roomId].users = @ \ {userId},
                           ![roomId].cursors = MapDelete(@, userId)]
       IN [rooms |-> R1,
           timers |-> IF R1[roomId].users = {}
                      THEN Append(T, CleanupTimer(roomId))
                      ELSE T]

\* faulty variant: the callback trusts the emptiness seen when it was scheduled
CleanupCheckStale(R, roomId) ==
  IF roomId \in DOMAIN R THEN MapDelete(R, roomId) ELSE R

\* faulty variant: a memberless room that still holds strokes is spared
CleanupCheckSparesDrawn(R, roomId) ==
  IF roomId \in DOMAIN R /\ R[roomId].users = {} /\ R[roomId].strokes = <<>>
  THEN MapDelete(R, roomId)
  ELSE R

\* the body of the cleanup callback, run when the timer fires
CleanupCheck(R, roomId) ==
  IF roomId \in DOMAIN R /\ R[roomId].users = {}
  THEN MapDelete(R, roomId)
  ELSE R

\* faulty variant: { id, userId, timestamp, ...stroke }, the client's keys win
StrokeWithMetaClientWins(stroke, userId, rnd) ==
  LET meta == [id |-> <<userId, clock, rnd>>, userId |-> userId,
               timestamp |-> clock]
      given == IF stroke.t = "obj" THEN stroke.f ELSE EmptyMap
  IN [k \in DOMAIN given \cup DOMAIN meta |->
        IF k \in DOMAIN given THEN given[k] ELSE meta[k]]

\* { ...stroke, id, userId, timestamp }: the later keys win
StrokeWithMeta(stroke, userId, rnd) ==
  LET meta == [id |-> <<userId, clock, rnd>>, userId |-> userId,
               timestamp |-> clock]
      given == IF stroke.t = "obj" THEN stroke.f ELSE EmptyMap
  IN [k \in DOMAIN given \cup DOMAIN meta |->
        IF k \in DOMAIN meta THEN meta[k] ELSE given[k]]

\* faulty variant: the stroke is pushed onto the log of every room
addStrokeEveryRoom(R, roomId, stroke, userId, rnd) ==
  LET R1 == getRoom(R, roomId)
  IN [r \in DOMAIN R1 |->
        [R1[r] EXCEPT !.strokes = Append(@, StrokeWithMeta(stroke, userId, rnd))]]

addStroke(R, roomId, stroke, userId, rnd) ==
  LET R1 == getRoom(R, roomId)
  IN [R1 EXCEPT ![roomId].strokes = Append(@, StrokeWithMeta(stroke, userId, rnd))]

updateCursor(R, roomId, userId, position) ==
  LET R1 == getRoom(R, roomId)
  IN [R1 EXCEPT ![roomId].cursors = MapSet(@, userId, position)]

\* getRoomStats: null for an unknown room, else its counters; it reads only
\* faulty variant: the room is looked up with getRoom, which creates it
removeCursorCreates(R, roomId, userId) ==
  LET R1 == getRoom(R, roomId)
  IN [R1 EXCEPT ![roomId].cursors = MapDelete(@, userId)]

\* removeCursor: the registry afterwards
removeCursor(R, roomId, userId) ==
  IF roomId \notin DOMAIN R THEN R
  ELSE [R EXCEPT ![roomId].cursors = MapDelete(@, userId)]

getRoomStats(R, roomId) ==
  IF roomId \notin DOMAIN R THEN [success |-> FALSE]
  ELSE [success |-> TRUE,
        id |-> roomId,
        userCount |-> Cardinality(R[roomId].users),
        strokeCount |-> Len(R[roomId].strokes),
        createdAt |-> R[roomId].createdAt,
        ageMinutes |-> (clock - R[roomId].createdAt) \div 60000]

\* ----------------------------------------------------------- StateManager
initializeUserStacks(S, roomId, userId) ==
  LET S1 == IF roomId \in DOMAIN S THEN S ELSE MapSet(S, roomId, EmptyMap)
  IN IF userId \in DOMAIN S1[roomId] THEN S1
     ELSE [S1 EXCEPT ![roomId] =
             MapSet(@, userId, [undoStack |-> <<>>, redoStack |-> <<>>])]

\* faulty variant: any stroke on the canvas counts, whoever drew it
canUserUndoAnyStroke(R, S, roomId, userId) ==
  LET S1 == initializeUserStacks(S, roomId, userId)
      R1 == getRoom(R, roomId)
  IN [rooms |-> R1, userStacks |-> S1, value |-> Len(R1[roomId].strokes) > 0]

\* canUserUndo: creates the stacks and the room, then scans the log
canUserUndo(R, S, roomId, userId) ==
  LET S1 == initializeUserStacks(S, roomId, userId)
      R1 == getRoom(R, roomId)
  IN [rooms |-> R1, userStacks |-> S1,
      value |-> \E i \in 1..Len(R1[roomId].strokes) :
                   R1[roomId].strokes[i].userId = userId]

\* faulty variant: redo availability read from the redoStack
canUserRedoFromRedoStack(S, roomId, userId) ==
  LET S1 == initializeUserStacks(S, roomId, userId)
  IN [userStacks |-> S1, value |-> Len(S1[roomId][userId].redoStack) > 0]

canUserRedo(S, roomId, userId) ==
  LET S1 == initializeUserStacks(S, roomId, userId)
  IN [userStacks |-> S1, value |-> Len(S1[roomId][userId].undoStack) > 0]

\* faulty variant: the scan stops at the last stroke, whoever drew it
LastStrokeIndexAnyUser(strokes, userId) == Len(strokes)

\* faulty variant: the scan runs forward and stops at the user's first stroke
LastStrokeIndexForward(strokes, userId) ==
  LET own == {i \in 1..Len(strokes) : strokes[i].userId = userId}
  IN IF own = {} THEN 0 ELSE CHOOSE i \in own : \A j \in own : i <= j

\* the backward scan of undo: index of the user's last stroke, 0 if none
LastStrokeIndex(strokes, userId) ==
  LET own == {i \in 1..Len(strokes) : strokes[i].userId = userId}
  IN IF own = {} THEN 0 ELSE CHOOSE i \in own : \A j \in own : j <= i

Null == [success |-> FALSE]

\* faulty variant: the flags of the result are computed before the removal
undoStaleFlags(R, S, roomId, userId) ==
  LET R1 == getRoom(R, roomId)
      strokes == R1[roomId].strokes
      S1 == initializeUserStacks(S, roomId, userId)
      lastStrokeIndex == LastStrokeIndex(strokes, userId)
  IN IF lastStrokeIndex = 0
     THEN [rooms |-> R1, userStacks |-> S1, result |-> Null]
     ELSE LET removedStroke == strokes[lastStrokeIndex]
              R2 == [R1 EXCEPT ![roomId].strokes = RemoveAt(@, lastStrokeIndex)]
              S2 == [S1 EXCEPT ![roomId][userId].undoStack = Append(@, removedStroke)]
          IN [rooms |-> R2, userStacks |-> S2,
              result |-> [success |-> TRUE,
                          strokes |-> R2[roomId].strokes,
                          stroke |-> removedStroke,
                          index |-> lastStrokeIndex,
                          canUndo |-> canUserUndo(R1, S1, roomId, userId).value,
                          canRedo |-> canUserRedo(S1, roomId, userId).value]]


\* faulty variant: a stroke is appended between the backward scan and the
\* removal, the scan saw the log without its last stroke
undoStaleScan(R, S, roomId, userId) ==
  LET R1 == getRoom(R, roomId)
      strokes == R1[roomId].strokes
      S1 == initializeUserStacks(S, roomId, userId)
      lastStrokeIndex == LastStrokeIndex(SubSeq(strokes, 1, Len(strokes) - 1), userId)
  IN IF lastStrokeIndex = 0
     THEN [rooms |-> R1, userStacks |-> S1, result |-> Null]
     ELSE LET removedStroke == strokes[lastStrokeIndex]
              R2 == [R1 EXCEPT ![roomId].strokes = RemoveAt(@, lastStrokeIndex)]
              S2 == [S1 EXCEPT ![roomId][userId].undoStack = Append(@, removedStroke)]
          IN [rooms |-> R2, userStacks |-> S2,
              result |-> [success |-> TRUE,
                          strokes |-> R2[roomId].strokes,
                          stroke |-> removedStroke,
                          index |-> lastStrokeIndex,
                          canUndo |-> canUserUndo(R2, S2, roomId, userId).value,
                          canRedo |-> canUserRedo(S2, roomId, userId).value]]

\* faulty variant: the stroke is pushed onto the undoStack but not spliced
\* out of the log
undoKeepsLog(R, S, roomId, userId) ==
  LET R1 == getRoom(R, roomId)
      strokes == R1[roomId].strokes
      S1 == initializeUserStacks(S, roomId, userId)
      lastStrokeIndex == LastStrokeIndex(strokes, userId)
  IN IF lastStrokeIndex = 0
     THEN [rooms |-> R1, userStacks |-> S1, result |-> Null]
     ELSE LET removedStroke == strokes[lastStrokeIndex]
              S2 == [S1 EXCEPT ![roomId][userId].undoStack = Append(@, removedStroke)]
          IN [rooms |-> R1, userStacks |-> S2,
              result |-> [success |-> TRUE,
                          strokes |-> R1[roomId].strokes,
                          stroke |-> removedStroke,
                          index |-> lastStrokeIndex,
                          canUndo |-> canUserUndo(R1, S2, roomId, userId).value,
                          canRedo |-> canUserRedo(S2, roomId, userId).value]]

undo(R, S, roomId, userId) ==
  LET R1 == getRoom(R, roomId)
      strokes == R1[roomId].strokes
      S1 == initializeUserStacks(S, roomId, userId)
      lastStrokeIndex == LastStrokeIndex(strokes, userId)
  IN IF lastStrokeIndex = 0
     THEN [rooms |-> R1, userStacks |-> S1, result |-> Null]
     ELSE LET removedStroke == strokes[lastStrokeIndex]
              R2 == [R1 EXCEPT ![roomId].strokes = RemoveAt(@, lastStrokeIndex)]
              S2 == [S1 EXCEPT ![roomId][userId].undoStack = Append(@, removedStroke)]
          IN [rooms |-> R2, userStacks |-> S2,
              result |-> [success |-> TRUE,
                          strokes |-> R2[roomId].strokes,
                          stroke |-> removedStroke,
                          index |-> lastStrokeIndex,
                          canUndo |-> canUserUndo(R2, S2, roomId, userId).value,
                          canRedo |-> canUserRedo(S2, roomId, userId).value]]

\* faulty variant: redo takes the oldest entry of the undoStack (shift, not pop)
redoOldest(R, S, roomId, userId) ==
  LET R1 == getRoom(R, roomId)
      S1 == initializeUserStacks(S, roomId, userId)
      undoStack == S1[roomId][userId].undoStack
  IN IF Len(undoStack) = 0
     THEN [rooms |-> R1, userStacks |-> S1, result |-> Null]
     ELSE LET stroke == undoStack[1]
              R2 == [R1 EXCEPT ![roomId].strokes = Append(@, stroke)]
              S2 == [S1 EXCEPT ![roomId][userId].undoStack = Tail(@),
                               ![roomId][userId].redoStack = Append(@, stroke)]
          IN [rooms |-> R2, userStacks |-> S2,
              result |-> [success |-> TRUE,
                          strokes |-> R2[roomId].strokes,
                          stroke |-> stroke,
                          canUndo |-> canUserUndo(R2, S2, roomId, userId).value,
                          canRedo |-> canUserRedo(S2, roomId, userId).value]]

\* faulty variant: redo appends the stroke as a new one, stamped anew
redoRestamps(R, S, roomId, userId) ==
  LET R1 == getRoom(R, roomId)
      S1 == initializeUserStacks(S, roomId, userId)
      undoStack == S1[roomId][userId].undoStack
  IN IF Len(undoStack) = 0
     THEN [rooms |-> R1, userStacks |-> S1, result |-> Null]
     ELSE LET stroke == [undoStack[Len(undoStack)] EXCEPT
                           !.id = <<userId, clock, @[3]>>, !.timestamp = clock]
              R2 == [R1 EXCEPT ![roomId].strokes = Append(@, stroke)]
              S2 == [S1 EXCEPT ![roomId][userId].undoStack =
                                  SubSeq(@, 1, Len(@) - 1),
                               ![roomId][userId].redoStack = Append(@, stroke)]
          IN [rooms |-> R2, userStacks |-> S2,
              result |-> [success |-> TRUE,
                          strokes |-> R2[roomId].strokes,
                          stroke |-> stroke,
                          canUndo |-> canUserUndo(R2, S2, roomId, userId).value,
                          canRedo |-> canUserRedo(S2, roomId, userId).value]]

\* faulty variant: redo puts the stroke at the front of the log (unshift)
redoPrepends(R, S, roomId, userId) ==
  LET R1 == getRoom(R, roomId)
      S1 == initializeUserStacks(S, roomId, userId)
      undoStack == S1[roomId][userId].undoStack
  IN IF Len(undoStack) = 0
     THEN [rooms |-> R1, userStacks |-> S1, result |-> Null]
     ELSE LET stroke == undoStack[Len(undoStack)]
              R2 == [R1 EXCEPT ![roomId].strokes = <<stroke>> \o @]
              S2 == [S1 EXCEPT ![roomId][userId].undoStack =
                                  SubSeq(@, 1, Len(@) - 1),
                               ![roomId][userId].redoStack = Append(@, stroke)]
          IN [rooms |-> R2, userStacks |-> S2,
              result |-> [success |-> TRUE,
                          strokes |-> R2[roomId].strokes,
                          stroke |-> stroke,
                          canUndo |-> canUserUndo(R2, S2, roomId, userId).value,
                          canRedo |-> canUserRedo(S2, roomId, userId).value]]

redo(R, S, roomId, userId) ==
  LET R1 == getRoom(R, roomId)
      S1 == initializeUserStacks(S, roomId, userId)
      undoStack == S1[roomId][userId].undoStack
  IN IF Len(undoStack) = 0
     THEN [rooms |-> R1, userStacks |-> S1, result |-> Null]
     ELSE LET stroke == undoStack[Len(undoStack)]
              R2 == [R1 EXCEPT ![roomId].strokes = Append(@, stroke)]
              S2 == [S1 EXCEPT ![roomId][userId].undoStack =
                                  SubSeq(@, 1, Len(@) - 1),
                               ![roomId][userId].redoStack = Append(@, stroke)]
          IN [rooms |-> R2, userStacks |-> S2,
              result |-> [success |-> TRUE,
                          strokes |-> R2[roomId].strokes,
                          stroke |-> stroke,
                          canUndo |-> canUserUndo(R2, S2, roomId, userId).value,
                          canRedo |-> canUserRedo(S2, roomId, userId).value]]

\* faulty variant: the stacks of the whole room are dropped, whoever asks
clearRedoHistoryWholeRoom(S, roomId, userId) ==
  IF roomId \notin DOMAIN S THEN S ELSE MapDelete(S, roomId)

\* faulty variant: only the unused redoStack is emptied
clearRedoHistoryRedoOnly(S, roomId, userId) ==
  IF roomId \notin DOMAIN S THEN S
  ELSE IF userId = "" THEN MapDelete(S, roomId)
  ELSE IF userId \in DOMAIN S[roomId]
       THEN [S EXCEPT ![roomId][userId].redoStack = <<>>]
       ELSE S

\* clearRedoHistory(roomId, userId = null): a falsy userId (written "" here)
\* drops the stacks of the whole room
clearRedoHistory(S, roomId, userId) ==
  IF roomId \notin DOMAIN S THEN S
  ELSE IF userId = "" THEN MapDelete(S, roomId)
  ELSE IF userId \in DOMAIN S[roomId]
       THEN [S EXCEPT ![roomId][userId] = [undoStack |-> <<>>, redoStack |-> <<>>]]
       ELSE S

\* clearRoomState: the log is emptied, then this.undoHistory (a field no
\* constructor sets) is dereferenced and the call ends in a TypeError;
\* userStacks is never reached
clearRoomState(R, S, roomId) ==
  LET R1 == getRoom(R, roomId)
  IN [rooms |-> [R1 EXCEPT ![roomId].strokes = <<>>],
      userStacks |-> S,
      result |-> [success |-> FALSE, threw |-> TRUE]]

\* typeof v === 'number'
TypeofNumber(v) == v.t \in {"num", "nan"}

\* v < -10000 || v > 10000 for a number v
OutOfBounds(v) == v.t = "num" /\ (v.v < -10000 \/ v.v > 10000)

\* validateStroke throws a TypeError instead of returning: the loop reads
\* point.x of a point that is null or undefined, and no earlier point has
\* made it return false
validateStrokeThrows(stroke) ==
  /\ stroke.t \in {"obj", "arr"}
  /\ Truthy(Get(stroke, "color")) /\ Truthy(Get(stroke, "width"))
  /\ Get(stroke, "points").t = "arr"
  /\ LET points == Get(stroke, "points").v
         PointOk(p) ==
           LET x == Get(p, "x")
               y == Get(p, "y")
           IN /\ TypeofNumber(x) /\ TypeofNumber(y)
              /\ ~(OutOfBounds(x) \/ OutOfBounds(y))
     IN \E i \in 1..Len(points) :
          /\ points[i].t \in {"null", "undefined"}
          /\ \A j \in 1..(i - 1) : PointOk(points[j])

\* faulty variant: the coordinate bounds themselves are rejected
validateStrokeOpenBounds(stroke) ==
  IF stroke.t \notin {"obj", "arr"} THEN FALSE
  ELSE LET color == Get(stroke, "color")
           width == Get(stroke, "width")
           points == Get(stroke, "points")
       IN IF ~Truthy(color) \/ ~Truthy(width) \/ points.t # "arr" THEN FALSE
          ELSE IF Len(points.v) = 0 THEN FALSE
          ELSE \A i \in 1..Len(points.v) :
                 LET x == Get(points.v[i], "x")
                     y == Get(points.v[i], "y")
                 IN /\ TypeofNumber(x) /\ TypeofNumber(y)
                    /\ x.t = "num" => (x.v > -10000 /\ x.v < 10000)
                    /\ y.t = "num" => (y.v > -10000 /\ y.v < 10000)

\* the value validateStroke returns when it returns
validateStroke(stroke) ==
  IF stroke.t \notin {"obj", "arr"} THEN FALSE
  ELSE LET color == Get(stroke, "color")
           width == Get(stroke, "width")
           points == Get(stroke, "points")
       IN IF ~Truthy(color) \/ ~Truthy(width) \/ points.t # "arr" THEN FALSE
          ELSE IF Len(points.v) = 0 THEN FALSE
          ELSE \A i \in 1..Len(points.v) :
                 LET x == Get(points.v[i], "x")
                     y == Get(points.v[i], "y")
                 IN /\ TypeofNumber(x) /\ TypeofNumber(y)
                    /\ ~(OutOfBounds(x) \/ OutOfBounds(y))


\* ------------------------------------------------- server.js socket handlers
\* stroke payloads a client sends: the one Canvas.jsx builds (userId is the
\* typed name), one carrying forged metadata, and one with no points
HonestStroke ==
  Obj([color |-> Str("#000000"), width |-> Num(2), points |-> Arr(<<Point(0, 0)>>),
       userId |-> "alice", timestamp |-> 0])
ForgedStroke ==
  Obj([color |-> Str("#000000"), width |-> Num(2), points |-> Arr(<<Point(0, 0)>>),
       userId |-> "s2", timestamp |-> 1, id |-> <<"s2", 1, "a">>])
EmptyStroke ==
  Obj([color |-> Str("#000000"), width |-> Num(2), points |-> Arr(<<>>),
       userId |-> "alice", timestamp |-> 0])
StrokeInputs == {HonestStroke, ForgedStroke, EmptyStroke}

\* userId values a clear-canvas payload carries: the typed name that
\* handleClear of Canvas.jsx sends, or any socket id
ClearPayloads == Names \cup Sockets

Positions == {[x |-> 1, y |-> 1]}

Connected(s) == conn[s].status = "connected"

\* the stroke log of a room, empty when the room does not exist
LogOf(R, roomId) == IF roomId \in DOMAIN R THEN R[roomId].strokes ELSE <<>>

\* a user's undoStack in a room, empty when none was created
UndoStackOf(S, roomId, userId) ==
  IF roomId \in DOMAIN S /\ userId \in DOMAIN S[roomId]
  THEN S[roomId][userId].undoStack ELSE <<>>

RedoStackOf(S, roomId, userId) ==
  IF roomId \in DOMAIN S /\ userId \in DOMAIN S[roomId]
  THEN S[roomId][userId].redoStack ELSE <<>>

Range(seq) == {seq[i] : i \in 1..Len(seq)}

Event(op, s, arg, result) ==
  [op |-> op, sock |-> s, arg |-> arg, result |-> result]

\* one emit of a handler: scope "sender" is socket.emit, "others" is
\* socket.to(roomId).emit, "room" is io.to(roomId).emit
Emit(event, scope, roomId, payload) ==
  [event |-> event, scope |-> scope, room |-> roomId, payload |-> payload]

\* the sockets a message of handler socket s is delivered to, C being the
\* connection table: socket.join(roomId) puts every connected socket into
\* the socket.io room of its handshake
Receivers(C, e, s) ==
  LET joined == {q \in Sockets : C[q].status = "connected" /\ C[q].room = e.room}
  IN CASE e.scope = "sender" -> {s}
       [] e.scope = "others" -> joined \ {s}
       [] e.scope = "room" -> joined

\* the member list of the users-updated message (roomUsers of server.js holds
\* the sockets registered in the room, as room.users does)
UserList(R, roomId) == IF roomId \in DOMAIN R THEN R[roomId].users ELSE {}

\* ---------------------------------------------------------------- history
NoUndo == [status |-> "none"]

\* what becomes of the tracked undo when event ev has been handled: it stays
\* open across strokes of other users of the room, is closed by its owner's
\* redo ("redone") or next stroke ("dropped"), and is forgotten otherwise
NextUndone(ev, roomId, R, S) ==
  IF ev.op = "undo" /\ ev.result.success
  THEN [status |-> "open", sock |-> ev.sock, room |-> roomId,
        stroke |-> ev.result.stroke,
        logBefore |-> Range(LogOf(R, roomId)),
        stackBefore |-> UndoStackOf(S, roomId, ev.sock),
        appended |-> {}]
  ELSE IF undone.status # "open" THEN NoUndo
  ELSE IF undone.room # roomId THEN undone
  ELSE IF ev.op = "stroke" /\ ev.result.success
       THEN IF ev.sock = undone.sock
            THEN [undone EXCEPT !.status = "dropped"]
            ELSE [undone EXCEPT !.appended = @ \cup {ev.result.stroke}]
  ELSE IF ev.op = "redo" /\ ev.result.success /\ ev.sock = undone.sock
       THEN [undone EXCEPT !.status = "redone"]
  ELSE NoUndo

\* when each memberless room last became memberless (or was created so)
NextEmptySince(R, R1) ==
  [roomId \in {r \in DOMAIN R1 : R1[r].users = {}} |->
     IF roomId \in DOMAIN R /\ R[roomId].users = {}
     THEN emptySince[roomId] ELSE clock]

\* ---------------------------------------------------------------- handlers
\* io.on("connection"): the socket is bound to the room of its handshake
\* a browser before its socket is connected: nothing drawn, nothing sent
NewClient ==
  [connected |-> FALSE, strokes |-> <<>>, outbox |-> <<>>, inbox |-> <<>>]

Connect(s, roomId) ==
  /\ conn[s].status = "new"
  /\ conn' = [conn EXCEPT ![s] = [status |-> "connected", room |-> roomId]]
  /\ last' = Event("connection", s, roomId, Null)
  /\ undone' = NextUndone(last', roomId, rooms, userStacks)
  /\ emitted' = <<>>
  /\ UNCHANGED <<rooms, userStacks, timers, clock, emptySince>>
  /\ UNCHANGED <<clients, drafts>>

\* faulty variant: the joiner's sync-state goes to the whole room
RegisterUserSyncsRoom(s) ==
  /\ Connected(s)
  /\ LET roomId == conn[s].room
         R1 == addUser(rooms, roomId, s)
         canRedo == canUserRedo(userStacks, roomId, s)
     IN /\ rooms' = R1
        /\ userStacks' = canRedo.userStacks
        /\ last' = Event("register-user", s, "",
                         [success |-> TRUE, canRedo |-> canRedo.value])
        /\ undone' = NextUndone(last', roomId, rooms, userStacks)
        /\ emitted' = <<Emit("sync-state", "room", roomId,
                              [strokes |-> R1[roomId].strokes,
                               canRedo |-> canRedo.value]),
                         Emit("users-updated", "room", roomId,
                              UserList(R1, roomId))>>
  /\ emptySince' = NextEmptySince(rooms, rooms')
  /\ UNCHANGED <<timers, clock, conn>>
  /\ UNCHANGED <<clients, drafts>>

\* socket.on("register-user")
OnRegisterUser(s) ==
  /\ Connected(s)
  /\ LET roomId == conn[s].room
         R1 == addUser(rooms, roomId, s)
         canRedo == canUserRedo(userStacks, roomId, s)
     IN /\ rooms' = R1
        /\ userStacks' = canRedo.userStacks
        /\ last' = Event("register-user", s, "",
                         [success |-> TRUE, canRedo |-> canRedo.value])
        /\ undone' = NextUndone(last', roomId, rooms, userStacks)
        /\ emitted' = <<Emit("sync-state", "sender", roomId,
                              [strokes |-> R1[roomId].strokes,
                               canRedo |-> canRedo.value]),
                         Emit("users-updated", "room", roomId,
                              UserList(R1, roomId))>>
  /\ emptySince' = NextEmptySince(rooms, rooms')
  /\ UNCHANGED <<timers, clock, conn>>

RegisterUser(s) ==
  /\ OnRegisterUser(s)
  /\ UNCHANGED <<clients, drafts>>

\* faulty variant: the redo history is cleared before the stroke is validated
StrokeClearsBeforeValidation(s, stroke, rnd) ==
  /\ Connected(s)
  /\ LET roomId == conn[s].room
     IN /\ IF validateStrokeThrows(stroke)
           THEN \* the exception leaves the handler before any mutation
                /\ last' = Event("stroke", s, stroke, [success |-> FALSE, threw |-> TRUE])
                /\ emitted' = <<>>
                /\ UNCHANGED <<rooms, userStacks>>
           ELSE IF ~validateStroke(stroke)
           THEN /\ last' = Event("stroke", s, stroke, Null)
                /\ emitted' = <<>>
                /\ userStacks' = clearRedoHistory(userStacks, roomId, s)
                /\ UNCHANGED rooms
           ELSE /\ Len(LogOf(rooms, roomId)) < MaxLog
                /\ LET S1 == clearRedoHistory(userStacks, roomId, s)
                       R1 == addStroke(rooms, roomId, stroke, s, rnd)
                   IN /\ userStacks' = S1
                      /\ rooms' = R1
                      /\ last' = Event("stroke", s, stroke,
                                       [success |-> TRUE,
                                        stroke |-> R1[roomId].strokes[Len(R1[roomId].strokes)]])
                      /\ emitted' = <<Emit("stroke", "others", roomId,
                                            R1[roomId].strokes[Len(R1[roomId].strokes)]),
                                       Emit("redo-state", "room", roomId, FALSE)>>
        /\ undone' = NextUndone(last', roomId, rooms, userStacks)
  /\ emptySince' = NextEmptySince(rooms, rooms')
  /\ UNCHANGED <<timers, clock, conn>>
  /\ UNCHANGED <<clients, drafts>>

\* socket.on("stroke")
OnStroke(s, stroke, rnd) ==
  /\ Connected(s)
  /\ LET roomId == conn[s].room
     IN /\ IF validateStrokeThrows(stroke)
           THEN \* the exception leaves the handler before any mutation
                /\ last' = Event("stroke", s, stroke, [success |-> FALSE, threw |-> TRUE])
                /\ emitted' = <<>>
                /\ UNCHANGED <<rooms, userStacks>>
           ELSE IF ~validateStroke(stroke)
           THEN /\ last' = Event("stroke", s, stroke, Null)
                /\ emitted' = <<>>
                /\ UNCHANGED <<rooms, userStacks>>
           ELSE /\ Len(LogOf(rooms, roomId)) < MaxLog
                /\ LET S1 == clearRedoHistory(userStacks, roomId, s)
                       R1 == addStroke(rooms, roomId, stroke, s, rnd)
                   IN /\ userStacks' = S1
                      /\ rooms' = R1
                      /\ last' = Event("stroke", s, stroke,
                                       [success |-> TRUE,
                                        stroke |-> R1[roomId].strokes[Len(R1[roomId].strokes)]])
                      /\ emitted' = <<Emit("stroke", "others", roomId,
                                            R1[roomId].strokes[Len(R1[roomId].strokes)]),
                                       Emit("redo-state", "room", roomId, FALSE)>>
        /\ undone' = NextUndone(last', roomId, rooms, userStacks)
  /\ emptySince' = NextEmptySince(rooms, rooms')
  /\ UNCHANGED <<timers, clock, conn>>

Stroke(s, stroke, rnd) ==
  /\ OnStroke(s, stroke, rnd)
  /\ UNCHANGED <<clients, drafts>>

\* faulty variant: the canvas is synced whether or not a stroke was undone
UndoAlwaysSyncs(s) ==
  /\ Connected(s)
  /\ LET roomId == conn[s].room
         res == undo(rooms, userStacks, roomId, s)
     IN /\ rooms' = res.rooms
        /\ userStacks' = res.userStacks
        /\ last' = Event("undo", s, "", res.result)
        /\ undone' = NextUndone(last', roomId, rooms, userStacks)
        /\ emitted' = <<Emit("sync-state", "room", roomId,
                             [strokes |-> res.rooms[roomId].strokes,
                              userId |-> s])>>
  /\ emptySince' = NextEmptySince(rooms, rooms')
  /\ UNCHANGED <<timers, clock, conn>>
  /\ UNCHANGED <<clients, drafts>>

\* socket.on("undo")
OnUndo(s) ==
  /\ Connected(s)
  /\ LET roomId == conn[s].room
         res == undo(rooms, userStacks, roomId, s)
     IN /\ rooms' = res.rooms
        /\ userStacks' = res.userStacks
        /\ last' = Event("undo", s, "", res.result)
        /\ undone' = NextUndone(last', roomId, rooms, userStacks)
        /\ emitted' = IF res.result.success
                      THEN <<Emit("sync-state", "room", roomId,
                                  [strokes |-> res.result.strokes,
                                   userId |-> s,
                                   canUndo |-> res.result.canUndo,
                                   canRedo |-> res.result.canRedo])>>
                      ELSE <<>>
  /\ emptySince' = NextEmptySince(rooms, rooms')
  /\ UNCHANGED <<timers, clock, conn>>

Undo(s) ==
  /\ OnUndo(s)
  /\ UNCHANGED <<clients, drafts>>

\* socket.on("redo"), handled while the redoStack holds fewer than bound strokes
OnRedo(s, bound) ==
  /\ Connected(s)
  /\ LET roomId == conn[s].room
         res == redo(rooms, userStacks, roomId, s)
     IN /\ Len(RedoStackOf(userStacks, roomId, s)) < bound
        /\ rooms' = res.rooms
        /\ userStacks' = res.userStacks
        /\ last' = Event("redo", s, "", res.result)
        /\ undone' = NextUndone(last', roomId, rooms, userStacks)
        /\ emitted' = IF res.result.success
                      THEN <<Emit("sync-state", "room", roomId,
                                  [strokes |-> res.result.strokes,
                                   userId |-> s,
                                   canUndo |-> res.result.canUndo,
                                   canRedo |-> res.result.canRedo])>>
                      ELSE <<>>
  /\ emptySince' = NextEmptySince(rooms, rooms')
  /\ UNCHANGED <<timers, clock, conn>>

RedoWithin(s, bound) ==
  /\ OnRedo(s, bound)
  /\ UNCHANGED <<clients, drafts>>

\* socket.on("redo")
Redo(s) == RedoWithin(s, MaxRedoStack)

\* socket.on("cursor-move")
CursorMove(s, position) ==
  /\ Connected(s)
  /\ rooms' = updateCursor(rooms, conn[s].room, s, position)
  /\ last' = Event("cursor-move", s, "", Null)
  /\ undone' = NextUndone(last', conn[s].room, rooms, userStacks)
  /\ emitted' = <<Emit("cursor-move", "others", conn[s].room,
                        [userId |-> s, x |-> position.x, y |-> position.y])>>
  /\ emptySince' = NextEmptySince(rooms, rooms')
  /\ UNCHANGED <<userStacks, timers, clock, conn>>
  /\ UNCHANGED <<clients, drafts>>

\* socket.on("clear-canvas") with payload { userId }
OnClearCanvas(s, userId) ==
  /\ Connected(s)
  /\ LET roomId == conn[s].room
         R1 == getRoom(rooms, roomId)
         initialLength == Len(R1[roomId].strokes)
         kept == SelectSeq(R1[roomId].strokes, LAMBDA stroke : stroke.userId # userId)
         R2 == [R1 EXCEPT ![roomId].strokes = kept]
     IN /\ rooms' = R2
        /\ userStacks' = clearRedoHistory(userStacks, roomId, s)
        /\ last' = Event("clear-canvas", s, userId,
                         [success |-> TRUE, removed |-> initialLength - Len(kept)])
        /\ undone' = NextUndone(last', roomId, rooms, userStacks)
        /\ emitted' = <<Emit("sync-state", "room", roomId,
                              [strokes |-> kept, canRedo |-> FALSE])>>
  /\ emptySince' = NextEmptySince(rooms, rooms')
  /\ UNCHANGED <<timers, clock, conn>>

ClearCanvas(s, userId) ==
  /\ OnClearCanvas(s, userId)
  /\ UNCHANGED <<clients, drafts>>

\* socket.on("disconnect")
Disconnect(s) ==
  /\ Connected(s)
  /\ LET res == removeUser(rooms, timers, conn[s].room, s)
     IN /\ rooms' = res.rooms
        /\ timers' = res.timers
  /\ conn' = [conn EXCEPT ![s].status = "gone"]
  /\ last' = Event("disconnect", s, "", Null)
  /\ undone' = NextUndone(last', conn[s].room, rooms, userStacks)
  /\ emitted' = <<Emit("user-disconnected", "others", conn[s].room, s)>>
                  \o IF UserList(rooms, conn[s].room) # {}
                     THEN <<Emit("users-updated", "room", conn[s].room,
                                 UserList(rooms', conn[s].room))>>
                     ELSE <<>>
  /\ emptySince' = NextEmptySince(rooms, rooms')
  /\ UNCHANGED <<userStacks, clock>>
  /\ UNCHANGED <<clients, drafts>>

\* a call of stateManager.clearRoomState(roomId); no handler of server.js makes it
ClearRoomState(roomId) ==
  /\ LET res == clearRoomState(rooms, userStacks, roomId)
     IN /\ rooms' = res.rooms
        /\ userStacks' = res.userStacks
        /\ last' = Event("clear-room", "", roomId, res.result)
  /\ undone' = NextUndone(last', roomId, rooms, userStacks)
  /\ emitted' = <<>>
  /\ emptySince' = NextEmptySince(rooms, rooms')
  /\ UNCHANGED <<timers, clock, conn>>
  /\ UNCHANGED <<clients, drafts>>

\* a call of roomManager.addUser(roomId, userId)
AddUser(roomId, userId) ==
  /\ rooms' = addUser(rooms, roomId, userId)
  /\ last' = Event("add-user", userId, roomId,
                   [success |-> TRUE,
                    already |-> userId \in UserList(rooms, roomId)])
  /\ undone' = NextUndone(last', roomId, rooms, userStacks)
  /\ emitted' = <<>>
  /\ emptySince' = NextEmptySince(rooms, rooms')
  /\ UNCHANGED <<userStacks, timers, clock, conn>>
  /\ UNCHANGED <<clients, drafts>>

\* a call of roomManager.removeUser(roomId, userId)
RemoveUser(roomId, userId) ==
  /\ Len(timers) < MaxTimers
  /\ LET res == removeUser(rooms, timers, roomId, userId)
     IN /\ rooms' = res.rooms
        /\ timers' = res.timers
  /\ last' = Event("remove-user", userId, roomId,
                   [success |-> roomId \in DOMAIN rooms,
                    member |-> userId \in UserList(rooms, roomId),
                    cursor |-> roomId \in DOMAIN rooms
                                 /\ userId \in DOMAIN rooms[roomId].cursors])
  /\ undone' = NextUndone(last', roomId, rooms, userStacks)
  /\ emitted' = <<>>
  /\ emptySince' = NextEmptySince(rooms, rooms')
  /\ UNCHANGED <<userStacks, clock, conn>>
  /\ UNCHANGED <<clients, drafts>>

\* getAllRoomsStats: the statistics of every key of the registry (the array
\* is kept as a map from the room id to its entry)
getAllRoomsStats(R) == [roomId \in DOMAIN R |-> getRoomStats(R, roomId)]

\* a call of roomManager.removeCursor(roomId, userId)
RemoveCursor(roomId, userId) ==
  /\ rooms' = removeCursor(rooms, roomId, userId)
  /\ last' = Event("remove-cursor", userId, roomId,
                   [success |-> roomId \in DOMAIN rooms])
  /\ undone' = NextUndone(last', roomId, rooms, userStacks)
  /\ emitted' = <<>>
  /\ emptySince' = NextEmptySince(rooms, rooms')
  /\ UNCHANGED <<userStacks, timers, clock, conn>>
  /\ UNCHANGED <<clients, drafts>>

\* a call of roomManager.getAllRoomsStats()
GetAllRoomsStats ==
  /\ last' = Event("all-stats", "", "",
                   [success |-> TRUE, stats |-> getAllRoomsStats(rooms)])
  /\ undone' = NextUndone(last', "", rooms, userStacks)
  /\ emitted' = <<>>
  /\ UNCHANGED <<rooms, userStacks, timers, clock, conn, emptySince>>
  /\ UNCHANGED <<clients, drafts>>

\* a call of roomManager.getRoomStats(roomId)
GetRoomStats(roomId) ==
  /\ last' = Event("room-stats", "", roomId, getRoomStats(rooms, roomId))
  /\ undone' = NextUndone(last', roomId, rooms, userStacks)
  /\ emitted' = <<>>
  /\ UNCHANGED <<rooms, userStacks, timers, clock, conn, emptySince>>
  /\ UNCHANGED <<clients, drafts>>

\* the oldest cleanup timer fires once it is due (timers of equal delay fire
\* in scheduling order)
FireTimer ==
  /\ timers # <<>>
  /\ Head(timers).due <= clock
  /\ rooms' = CleanupCheck(rooms, Head(timers).roomId)
  /\ timers' = Tail(timers)
  /\ last' = Event("cleanup", "", Head(timers).roomId,
                   [success |-> Head(timers).roomId \in DOMAIN rooms
                                /\ Head(timers).roomId \notin DOMAIN rooms',
                    strokeCount |-> Len(LogOf(rooms, Head(timers).roomId))])
  /\ undone' = NextUndone(last', Head(timers).roomId, rooms, userStacks)
  /\ emitted' = <<>>
  /\ emptySince' = NextEmptySince(rooms, rooms')
  /\ UNCHANGED <<userStacks, clock, conn>>
  /\ UNCHANGED <<clients, drafts>>

\* time passes
Tick ==
  /\ clock < MaxTicks * TickStep
  /\ clock' = clock + TickStep
  /\ last' = Event("tick", "", "", Null)
  /\ emitted' = <<>>
  /\ UNCHANGED <<rooms, userStacks, timers, conn, undone, emptySince>>
  /\ UNCHANGED <<clients, drafts>>

\* time passes while a cleanup timer is pending that is not due yet
Elapse ==
  /\ \E i \in DOMAIN timers : timers[i].due > clock
  /\ clock' = clock + TickStep
  /\ last' = Event("tick", "", "", Null)
  /\ emitted' = <<>>
  /\ UNCHANGED <<rooms, userStacks, timers, conn, undone, emptySince>>
  /\ UNCHANGED <<clients, drafts>>

\* ------------------------------------- the earlier StateManager designs
\* each design starts with an empty registry and an empty redoHistory
NewDrafts ==
  [shared  |-> [rooms |-> EmptyMap, redoHistory |-> EmptyMap],
   perUser |-> [rooms |-> EmptyMap, redoHistory |-> EmptyMap]]

\* room-keyed design: redoHistory maps a room to one list of
\* {stroke, userId, timestamp}, searched by userId
undoShared(R, H, roomId, userId) ==
  LET R1 == getRoom(R, roomId)
      strokes == R1[roomId].strokes
      lastStrokeIndex == LastStrokeIndex(strokes, userId)
  IN IF lastStrokeIndex = 0
     THEN [rooms |-> R1, redoHistory |-> H, result |-> Null]
     ELSE LET removedStroke == strokes[lastStrokeIndex]
              R2 == [R1 EXCEPT ![roomId].strokes = RemoveAt(@, lastStrokeIndex)]
              H1 == IF roomId \in DOMAIN H THEN H ELSE MapSet(H, roomId, <<>>)
              H2 == [H1 EXCEPT ![roomId] =
                       Append(@, [stroke |-> removedStroke, userId |-> userId,
                                  timestamp |-> clock])]
          IN [rooms |-> R2, redoHistory |-> H2,
              result |-> [success |-> TRUE,
                          strokes |-> R2[roomId].strokes,
                          stroke |-> removedStroke]]

\* the index of the last entry of the list made by the user, 0 if none
LastRedoIndex(redoStack, userId) ==
  LET own == {i \in DOMAIN redoStack : redoStack[i].userId = userId}
  IN IF own = {} THEN 0 ELSE CHOOSE i \in own : \A j \in own : j <= i

\* faulty variant: redo takes the last entry of the list, whoever made it
redoSharedAnyUser(R, H, roomId, userId) ==
  IF roomId \notin DOMAIN H \/ H[roomId] = <<>>
  THEN [rooms |-> R, redoHistory |-> H, result |-> Null]
  ELSE LET redoStack == H[roomId]
           lastRedoIndex == Len(redoStack)
           redoOp == redoStack[lastRedoIndex]
           H1 == [H EXCEPT ![roomId] = RemoveAt(@, lastRedoIndex)]
           R1 == getRoom(R, roomId)
           R2 == [R1 EXCEPT ![roomId].strokes = Append(@, redoOp.stroke)]
       IN [rooms |-> R2, redoHistory |-> H1,
           result |-> [success |-> TRUE,
                       strokes |-> R2[roomId].strokes,
                       stroke |-> redoOp.stroke]]

redoShared(R, H, roomId, userId) ==
  IF roomId \notin DOMAIN H \/ H[roomId] = <<>>
  THEN [rooms |-> R, redoHistory |-> H, result |-> Null]
  ELSE LET redoStack == H[roomId]
           lastRedoIndex == LastRedoIndex(redoStack, userId)
       IN IF lastRedoIndex = 0
          THEN [rooms |-> R, redoHistory |-> H, result |-> Null]
          ELSE LET redoOp == redoStack[lastRedoIndex]
                   H1 == [H EXCEPT ![roomId] = RemoveAt(@, lastRedoIndex)]
                   R1 == getRoom(R, roomId)
                   R2 == [R1 EXCEPT ![roomId].strokes = Append(@, redoOp.stroke)]
               IN [rooms |-> R2, redoHistory |-> H1,
                   result |-> [success |-> TRUE,
                               strokes |-> R2[roomId].strokes,
                               stroke |-> redoOp.stroke]]

canUserRedoShared(H, roomId, userId) ==
  /\ roomId \in DOMAIN H
  /\ \E i \in DOMAIN H[roomId] : H[roomId][i].userId = userId

\* clearRedoHistory(roomId, userId) with a userId given
clearRedoHistoryShared(H, roomId, userId) ==
  IF roomId \notin DOMAIN H THEN H
  ELSE [H EXCEPT ![roomId] = SelectSeq(@, LAMBDA op : op.userId # userId)]

\* per-user design: redoHistory maps a room to a map from the user to a
\* list of {stroke, timestamp}
undoPerUser(R, H, roomId, userId) ==
  LET R1 == getRoom(R, roomId)
      strokes == R1[roomId].strokes
      lastStrokeIndex == LastStrokeIndex(strokes, userId)
  IN IF lastStrokeIndex = 0
     THEN [rooms |-> R1, redoHistory |-> H, result |-> Null]
     ELSE LET removedStroke == strokes[lastStrokeIndex]
              R2 == [R1 EXCEPT ![roomId].strokes = RemoveAt(@, lastStrokeIndex)]
              H1 == IF roomId \in DOMAIN H THEN H ELSE MapSet(H, roomId, EmptyMap)
              H2 == IF userId \in DOMAIN H1[roomId] THEN H1
                    ELSE [H1 EXCEPT ![roomId] = MapSet(@, userId, <<>>)]
              H3 == [H2 EXCEPT ![roomId][userId] =
                       Append(@, [stroke |-> removedStroke, timestamp |-> clock])]
          IN [rooms |-> R2, redoHistory |-> H3,
              result |-> [success |-> TRUE,
                          strokes |-> R2[roomId].strokes,
                          stroke |-> removedStroke]]

redoPerUser(R, H, roomId, userId) ==
  IF roomId \notin DOMAIN H
  THEN [rooms |-> R, redoHistory |-> H, result |-> Null]
  ELSE LET userRedo == IF userId \in DOMAIN H[roomId] THEN H[roomId][userId] ELSE <<>>
       IN IF Len(userRedo) = 0
          THEN [rooms |-> R, redoHistory |-> H, result |-> Null]
          ELSE LET redoOp == userRedo[Len(userRedo)]
                   H1 == [H EXCEPT ![roomId][userId] = SubSeq(@, 1, Len(@) - 1)]
                   R1 == getRoom(R, roomId)
                   R2 == [R1 EXCEPT ![roomId].strokes = Append(@, redoOp.stroke)]
               IN [rooms |-> R2, redoHistory |-> H1,
                   result |-> [success |-> TRUE,
                               strokes |-> R2[roomId].strokes,
                               stroke |-> redoOp.stroke]]

canUserRedoPerUser(H, roomId, userId) ==
  /\ roomId \in DOMAIN H
  /\ userId \in DOMAIN H[roomId]
  /\ Len(H[roomId][userId]) > 0

\* clearRedoHistory(roomId, userId) with a userId given
clearRedoHistoryPerUser(H, roomId, userId) ==
  IF roomId \notin DOMAIN H THEN H
  ELSE [H EXCEPT ![roomId] = MapDelete(@, userId)]

\* the strokes held by the canonical design: the bound of the model
HeldCount(roomId) ==
  Len(LogOf(rooms, roomId))
    + Len(UndoStackOf(userStacks, roomId, "s1"))
    + Len(UndoStackOf(userStacks, roomId, "s2"))

\* the same call made on the canonical StateManager and on the two earlier
\* designs, each with its own registry; the three outcomes are recorded
AppendAll(roomId, userId, rnd) ==
  /\ HeldCount(roomId) <= MaxLog
  /\ rooms' = addStroke(rooms, roomId, HonestStroke, userId, rnd)
  /\ drafts' = [drafts EXCEPT
        !.shared.rooms = addStroke(@, roomId, HonestStroke, userId, rnd),
        !.perUser.rooms = addStroke(@, roomId, HonestStroke, userId, rnd)]
  /\ last' = Event("append", userId, roomId, [success |-> TRUE])
  /\ UNCHANGED <<userStacks, timers, clock, conn, undone, emptySince, emitted,
                 clients>>

UndoAll(roomId, userId) ==
  LET c == undo(rooms, userStacks, roomId, userId)
      sh == undoShared(drafts.shared.rooms, drafts.shared.redoHistory, roomId, userId)
      pu == undoPerUser(drafts.perUser.rooms, drafts.perUser.redoHistory, roomId, userId)
  IN /\ rooms' = c.rooms
     /\ userStacks' = c.userStacks
     /\ drafts' = [shared  |-> [rooms |-> sh.rooms, redoHistory |-> sh.redoHistory],
                   perUser |-> [rooms |-> pu.rooms, redoHistory |-> pu.redoHistory]]
     /\ last' = Event("undo-all", userId, roomId,
                      [success |-> c.result.success, canonical |-> c.result,
                       shared |-> sh.result, perUser |-> pu.result])
     /\ UNCHANGED <<timers, clock, conn, undone, emptySince, emitted, clients>>

RedoAll(roomId, userId) ==
  LET c == redo(rooms, userStacks, roomId, userId)
      sh == redoShared(drafts.shared.rooms, drafts.shared.redoHistory, roomId, userId)
      pu == redoPerUser(drafts.perUser.rooms, drafts.perUser.redoHistory, roomId, userId)
  IN /\ Len(RedoStackOf(userStacks, roomId, userId)) < MaxRedoStack
     /\ rooms' = c.rooms
     /\ userStacks' = c.userStacks
     /\ drafts' = [shared  |-> [rooms |-> sh.rooms, redoHistory |-> sh.redoHistory],
                   perUser |-> [rooms |-> pu.rooms, redoHistory |-> pu.redoHistory]]
     /\ last' = Event("redo-all", userId, roomId,
                      [success |-> c.result.success, canonical |-> c.result,
                       shared |-> sh.result, perUser |-> pu.result])
     /\ UNCHANGED <<timers, clock, conn, undone, emptySince, emitted, clients>>

ClearRedoHistoryAll(roomId, userId) ==
  /\ userStacks' = clearRedoHistory(userStacks, roomId, userId)
  /\ drafts' = [drafts EXCEPT
        !.shared.redoHistory = clearRedoHistoryShared(@, roomId, userId),
        !.perUser.redoHistory = clearRedoHistoryPerUser(@, roomId, userId)]
  /\ last' = Event("clear-redo-all", userId, roomId, [success |-> TRUE])
  /\ UNCHANGED <<rooms, timers, clock, conn, undone, emptySince, emitted,
                 clients>>

\* ------------------------------------------------- browsers and channels
\* the stroke a browser draws: its colour tells the browsers apart, the
\* userId is the name typed at the join dialog
ColorOf(s) == IF s = "s1" THEN "#111111" ELSE "#222222"
ClientStroke(s) ==
  Obj([color |-> Str(ColorOf(s)), width |-> Num(2), points |-> Arr(<<Point(0, 0)>>),
       userId |-> "alice", timestamp |-> clock])

Message(event, payload) == [event |-> event, payload |-> payload]

\* socket.emit on the browser's side: the message joins the ordered channel
\* to the server
Send(C, s, event, payload) ==
  [C EXCEPT ![s].outbox = Append(@, Message(event, payload))]

\* the events whose browser handlers touch strokesRef
ViewEvents == {"stroke", "sync-state"}

\* the messages a handler emitted join, in order, the channel of each
\* receiver; messages of other events are left out, their handlers do not
\* touch strokesRef
RECURSIVE Route(_, _, _, _)
Route(C, K, s, msgs) ==
  IF msgs = <<>> THEN C
  ELSE LET e == Head(msgs)
           to == IF e.event \in ViewEvents THEN Receivers(K, e, s) ELSE {}
           C1 == [q \in Sockets |->
                    IF q \in to
                    THEN [C[q] EXCEPT !.inbox = Append(@, Message(e.event, e.payload))]
                    ELSE C[q]]
       IN Route(C1, K, s, Tail(msgs))

\* the server takes the next message of the socket's channel
Awaits(C, s, event) ==
  /\ C[s].outbox # <<>>
  /\ Head(C[s].outbox).event = event

Taken(C, s) == [C EXCEPT ![s].outbox = Tail(@)]

\* browser, socket.on("connect"): it registers
OnConnect(s) ==
  /\ Connected(s)
  /\ ~clients[s].connected
  /\ clients' = Send([clients EXCEPT ![s].connected = TRUE], s, "register-user",
                     [userId |-> "alice", username |-> "alice"])
  /\ UNCHANGED <<rooms, userStacks, timers, clock, conn, last, undone,
                 emptySince, emitted, drafts>>

\* the channels have room for another message of the browser
MaySend(s) ==
  /\ clients[s].connected
  /\ Len(clients[s].outbox) < MaxOutbox
  /\ \A q \in Sockets : Len(clients[q].inbox) < MaxInbox

\* the strokes that were drawn or are in the log: the bound of the model
StrokesInFlight ==
  Cardinality({<<s, i>> \in Sockets \X (1..MaxOutbox) :
                 i <= Len(clients[s].outbox) /\ clients[s].outbox[i].event = "stroke"})

\* browser, handleMouseUp: the stroke is sent and pushed onto strokesRef
handleMouseUp(s) ==
  /\ MaySend(s)
  /\ \A roomId \in Rooms : Len(LogOf(rooms, roomId)) + StrokesInFlight < MaxLog
  /\ clients' = Send([clients EXCEPT ![s].strokes = Append(@, ClientStroke(s))],
                     s, "stroke", ClientStroke(s))
  /\ UNCHANGED <<rooms, userStacks, timers, clock, conn, last, undone,
                 emptySince, emitted, drafts>>

\* browser, handleUndo
handleUndo(s) ==
  /\ MaySend(s)
  /\ clients' = Send(clients, s, "undo", Null)
  /\ UNCHANGED <<rooms, userStacks, timers, clock, conn, last, undone,
                 emptySince, emitted, drafts>>

\* browser, handleRedo
handleRedo(s) ==
  /\ MaySend(s)
  /\ clients' = Send(clients, s, "redo", Null)
  /\ UNCHANGED <<rooms, userStacks, timers, clock, conn, last, undone,
                 emptySince, emitted, drafts>>

\* browser, handleClear: the payload carries the typed name
handleClear(s) ==
  /\ MaySend(s)
  /\ clients' = Send(clients, s, "clear-canvas", [userId |-> "alice"])
  /\ UNCHANGED <<rooms, userStacks, timers, clock, conn, last, undone,
                 emptySince, emitted, drafts>>

\* the server handles the next message of a socket and its emissions join
\* the channels of their receivers
ServeRegisterUser(s) ==
  /\ Awaits(clients, s, "register-user")
  /\ OnRegisterUser(s)
  /\ clients' = Route(Taken(clients, s), conn, s, emitted')
  /\ UNCHANGED drafts

ServeStroke(s) ==
  /\ Awaits(clients, s, "stroke")
  /\ OnStroke(s, Head(clients[s].outbox).payload, "a")
  /\ clients' = Route(Taken(clients, s), conn, s, emitted')
  /\ UNCHANGED drafts

ServeUndo(s) ==
  /\ Awaits(clients, s, "undo")
  /\ OnUndo(s)
  /\ clients' = Route(Taken(clients, s), conn, s, emitted')
  /\ UNCHANGED drafts

ServeRedo(s) ==
  /\ Awaits(clients, s, "redo")
  /\ OnRedo(s, MaxRedoStack)
  /\ clients' = Route(Taken(clients, s), conn, s, emitted')
  /\ UNCHANGED drafts

ServeClearCanvas(s) ==
  /\ Awaits(clients, s, "clear-canvas")
  /\ OnClearCanvas(s, Head(clients[s].outbox).payload.userId)
  /\ clients' = Route(Taken(clients, s), conn, s, emitted')
  /\ UNCHANGED drafts

\* browser, socket.on("stroke"): the stroke is pushed onto strokesRef
ReceiveStroke(s) ==
  /\ clients[s].inbox # <<>>
  /\ Head(clients[s].inbox).event = "stroke"
  /\ clients' = [clients EXCEPT ![s].inbox = Tail(@),
                                ![s].strokes = Append(@, Head(clients[s].inbox).payload)]
  /\ UNCHANGED <<rooms, userStacks, timers, clock, conn, last, undone,
                 emptySince, emitted, drafts>>

\* browser, socket.on("sync-state"): strokesRef is replaced by data.strokes
ReceiveSyncState(s) ==
  /\ clients[s].inbox # <<>>
  /\ Head(clients[s].inbox).event = "sync-state"
  /\ clients' = [clients EXCEPT ![s].inbox = Tail(@),
                                ![s].strokes = Head(clients[s].inbox).payload.strokes]
  /\ UNCHANGED <<rooms, userStacks, timers, clock, conn, last, undone,
                 emptySince, emitted, drafts>>

Init ==
  /\ rooms = EmptyMap
  /\ userStacks = EmptyMap
  /\ timers = <<>>
  /\ clock = 0
  /\ conn = [s \in Sockets |-> [status |-> "new", room |-> ""]]
  /\ last = Event("init", "", "", Null)
  /\ undone = NoUndo
  /\ emptySince = EmptyMap
  /\ emitted = <<>>
  /\ clients = [s \in Sockets |-> NewClient]
  /\ drafts = NewDrafts

Next ==
  \/ \E s \in Sockets, roomId \in Rooms : Connect(s, roomId)
  \/ \E s \in Sockets : RegisterUser(s)
  \/ \E s \in Sockets, stroke \in StrokeInputs, rnd \in Suffixes : Stroke(s, stroke, rnd)
  \/ \E s \in Sockets : Undo(s)
  \/ \E s \in Sockets : Redo(s)
  \/ \E s \in Sockets, position \in Positions : CursorMove(s, position)
  \/ \E s \in Sockets, userId \in ClearPayloads : ClearCanvas(s, userId)
  \/ \E s \in Sockets : Disconnect(s)
  \/ \E roomId \in Rooms : ClearRoomState(roomId)
  \/ \E roomId \in Rooms : GetRoomStats(roomId)
  \/ \E roomId \in Rooms, userId \in Sockets : AddUser(roomId, userId)
  \/ \E roomId \in Rooms, userId \in Sockets : RemoveUser(roomId, userId)
  \/ \E roomId \in Rooms, userId \in Sockets : RemoveCursor(roomId, userId)
  \/ GetAllRoomsStats
  \/ FireTimer
  \/ Tick
  \/ Elapse
  \/ \E s \in Sockets : OnConnect(s)
  \/ \E s \in Sockets : handleMouseUp(s)
  \/ \E s \in Sockets : handleUndo(s)
  \/ \E s \in Sockets : handleRedo(s)
  \/ \E s \in Sockets : handleClear(s)
  \/ \E s \in Sockets : ServeRegisterUser(s)
  \/ \E s \in Sockets : ServeStroke(s)
  \/ \E s \in Sockets : ServeUndo(s)
  \/ \E s \in Sockets : ServeRedo(s)
  \/ \E s \in Sockets : ServeClearCanvas(s)
  \/ \E s \in Sockets : ReceiveStroke(s)
  \/ \E s \in Sockets : ReceiveSyncState(s)
  \/ \E roomId \in Rooms, userId \in Sockets, rnd \in Suffixes : AppendAll(roomId, userId, rnd)
  \/ \E roomId \in Rooms, userId \in Sockets : UndoAll(roomId, userId)
  \/ \E roomId \in Rooms, userId \in Sockets : RedoAll(roomId, userId)
  \/ \E roomId \in Rooms, userId \in Sockets : ClearRedoHistoryAll(roomId, userId)

Spec == Init /\ [][Next]_vars

\* strokes, undo and redo of the connected sockets: no socket leaves and no
\* time passes, so no room is evicted
NextDraw ==
  \/ \E s \in Sockets, roomId \in Rooms : Connect(s, roomId)
  \/ \E s \in Sockets, rnd \in Suffixes : Stroke(s, HonestStroke, rnd)
  \/ \E s \in Sockets : Undo(s)
  \/ \E s \in Sockets : Redo(s)

SpecDraw == Init /\ [][NextDraw]_vars

\* the drawing handlers with clear-canvas and every stroke payload
NextClear ==
  \/ \E s \in Sockets, roomId \in Rooms : Connect(s, roomId)
  \/ \E s \in Sockets, stroke \in StrokeInputs, rnd \in Suffixes : Stroke(s, stroke, rnd)
  \/ \E s \in Sockets : Undo(s)
  \/ \E s \in Sockets : Redo(s)
  \/ \E s \in Sockets, userId \in ClearPayloads : ClearCanvas(s, userId)

SpecClear == Init /\ [][NextClear]_vars

\* the room lifecycle: joins, leaves, strokes and the cleanup timers
NextLife ==
  \/ \E s \in Sockets, roomId \in Rooms : Connect(s, roomId)
  \/ \E s \in Sockets : RegisterUser(s)
  \/ \E s \in Sockets, rnd \in Suffixes : Stroke(s, HonestStroke, rnd)
  \/ \E s \in Sockets : Disconnect(s)
  \/ FireTimer
  \/ Tick

SpecLife == Init /\ [][NextLife]_vars

\* the drawing handlers with every stroke payload, valid or not (one outcome
\* of the random id suffix)
NextSubmit ==
  \/ \E s \in Sockets, roomId \in Rooms : Connect(s, roomId)
  \/ \E s \in Sockets, stroke \in StrokeInputs : Stroke(s, stroke, "a")
  \/ \E s \in Sockets : Undo(s)
  \/ \E s \in Sockets : Redo(s)

SpecSubmit == Init /\ [][NextSubmit]_vars

\* the drawing handlers of one socket while time passes (one outcome of the
\* random id suffix)
NextRedraw ==
  \/ \E roomId \in Rooms : Connect("s1", roomId)
  \/ Stroke("s1", HonestStroke, "a")
  \/ Undo("s1")
  \/ Redo("s1")
  \/ Tick

SpecRedraw == Init /\ [][NextRedraw]_vars

\* the drawing handlers and the whole-room reset
NextReset ==
  \/ \E s \in Sockets, roomId \in Rooms : Connect(s, roomId)
  \/ \E s \in Sockets : Stroke(s, HonestStroke, "a")
  \/ \E s \in Sockets : Undo(s)
  \/ \E s \in Sockets : Redo(s)
  \/ \E roomId \in Rooms : ClearRoomState(roomId)

SpecReset == Init /\ [][NextReset]_vars

\* joins among the drawing handlers: a socket may draw and undo before it
\* registers (one outcome of the random id suffix)
NextJoin ==
  \/ \E s \in Sockets, roomId \in Rooms : Connect(s, roomId)
  \/ \E s \in Sockets : RegisterUser(s)
  \/ \E s \in Sockets : Stroke(s, HonestStroke, "a")
  \/ \E s \in Sockets : Undo(s)

SpecJoin == Init /\ [][NextJoin]_vars

\* every operation that reads or writes the stroke log of a room, while no
\* time passes (one outcome of the random id suffix)
NextLog ==
  \/ \E s \in Sockets, roomId \in Rooms : Connect(s, roomId)
  \/ \E s \in Sockets : RegisterUser(s)
  \/ \E s \in Sockets : Stroke(s, HonestStroke, "a")
  \/ \E s \in Sockets : Undo(s)
  \/ \E s \in Sockets : Redo(s)
  \/ \E s \in Sockets, position \in Positions : CursorMove(s, position)
  \/ \E s \in Sockets : ClearCanvas(s, s)
  \/ \E s \in Sockets : Disconnect(s)
  \/ \E roomId \in Rooms : GetRoomStats(roomId)

SpecLog == Init /\ [][NextLog]_vars

\* runs of undos and redos of s1, as long as the log, among strokes of s2
NextLifo ==
  \/ \E s \in Sockets, roomId \in Rooms : Connect(s, roomId)
  \/ \E rnd \in Suffixes : Stroke("s1", HonestStroke, rnd)
  \/ Stroke("s2", HonestStroke, "a")
  \/ Undo("s1")
  \/ RedoWithin("s1", MaxLog)

SpecLifo == Init /\ [][NextLifo]_vars

\* every interleaving of the stroke, undo, redo and clear events of two
\* sockets (the strokes of s1 differ in their random suffix)
NextSerial ==
  \/ \E s \in Sockets, roomId \in Rooms : Connect(s, roomId)
  \/ \E rnd \in Suffixes : Stroke("s1", HonestStroke, rnd)
  \/ Stroke("s2", HonestStroke, "a")
  \/ \E s \in Sockets : Undo(s)
  \/ \E s \in Sockets : Redo(s)
  \/ \E s \in Sockets : ClearCanvas(s, s)

SpecSerial == Init /\ [][NextSerial]_vars

\* two rooms side by side: s2 fills a second room (it joins, draws, undoes
\* and moves its cursor) while every handler runs for s1 in r1; once s1 has
\* left, time passes and the cleanup timer of r1 fires (one outcome of the
\* random id suffix)
OtherRoom == "r2"

NextRooms ==
  \/ Connect("s1", "r1")
  \/ Connect("s2", OtherRoom)
  \/ \E s \in Sockets : RegisterUser(s)
  \/ \E s \in Sockets : Stroke(s, HonestStroke, "a")
  \/ \E s \in Sockets : Undo(s)
  \/ Redo("s1")
  \/ \E s \in Sockets, position \in Positions : CursorMove(s, position)
  \/ ClearCanvas("s1", "s1")
  \/ Disconnect("s1")
  \/ FireTimer
  \/ conn["s1"].status = "gone" /\ Tick

SpecRooms == Init /\ [][NextRooms]_vars

\* the membership operations of the registry called directly, for two rooms:
\* s1 draws in r1, s2 joins either room and disconnects, both move their
\* cursors (one outcome of the random id suffix)
NextRegistry ==
  \/ Connect("s1", "r1")
  \/ \E roomId \in Rooms \cup {OtherRoom} : Connect("s2", roomId)
  \/ Stroke("s1", HonestStroke, "a")
  \/ \E s \in Sockets, position \in Positions : CursorMove(s, position)
  \/ \E roomId \in Rooms \cup {OtherRoom}, userId \in Sockets : AddUser(roomId, userId)
  \/ \E roomId \in Rooms \cup {OtherRoom}, userId \in Sockets : RemoveUser(roomId, userId)
  \/ Disconnect("s2")

SpecRegistry == Init /\ [][NextRegistry]_vars

\* the remove and statistics operations of the registry called directly for
\* a room id that may or may not be in the registry, while s1 draws and
\* moves its cursor in r1 (one outcome of the random id suffix)
NextStats ==
  \/ Connect("s1", "r1")
  \/ Stroke("s1", HonestStroke, "a")
  \/ \E position \in Positions : CursorMove("s1", position)
  \/ \E roomId \in Rooms \cup {OtherRoom}, userId \in Sockets : AddUser(roomId, userId)
  \/ \E roomId \in Rooms \cup {OtherRoom}, userId \in Sockets : RemoveUser(roomId, userId)
  \/ \E roomId \in Rooms \cup {OtherRoom}, userId \in Sockets : RemoveCursor(roomId, userId)
  \/ \E roomId \in Rooms \cup {OtherRoom} : GetRoomStats(roomId)
  \/ GetAllRoomsStats

SpecStats == Init /\ [][NextStats]_vars

\* submit (honest and forged payloads), undo, redo, clear, join, leave and
\* eviction in one room: s1 joins and leaves, time passes once it has left
\* and the cleanup timer fires while s2 goes on (one outcome of the random
\* id suffix)
NextOwner ==
  \/ \E s \in Sockets, roomId \in Rooms : Connect(s, roomId)
  \/ RegisterUser("s1")
  \/ \E s \in Sockets, stroke \in {HonestStroke, ForgedStroke} : Stroke(s, stroke, "a")
  \/ \E s \in Sockets : Undo(s)
  \/ \E s \in Sockets : Redo(s)
  \/ \E s \in Sockets : ClearCanvas(s, s)
  \/ Disconnect("s1")
  \/ FireTimer
  \/ conn["s1"].status = "gone" /\ Tick

SpecOwner == Init /\ [][NextOwner]_vars

\* the server's event flow for one room with the timers of the event loop:
\* s1 registers, s2 never does; a due timer is eventually run and time does
\* not stand still while a timer waits (one outcome of the random id suffix)
NextFlow ==
  \/ \E s \in Sockets, roomId \in Rooms : Connect(s, roomId)
  \/ RegisterUser("s1")
  \/ \E s \in Sockets : Stroke(s, HonestStroke, "a")
  \/ \E s \in Sockets : Undo(s)
  \/ Redo("s1")
  \/ \E position \in Positions : CursorMove("s2", position)
  \/ ClearCanvas("s1", "s1")
  \/ \E s \in Sockets : Disconnect(s)
  \/ FireTimer
  \/ Elapse

\* browsers and the server over reliable ordered channels: every message a
\* browser sends is handled in the order sent, every message the server
\* emits is received in the order emitted (one outcome of the random id
\* suffix)
NextClient ==
  \/ \E s \in Sockets, roomId \in Rooms : Connect(s, roomId)
  \/ \E s \in Sockets : OnConnect(s)
  \/ \E s \in Sockets : handleMouseUp(s)
  \/ \E s \in Sockets : handleUndo(s)
  \/ \E s \in Sockets : handleRedo(s)
  \/ \E s \in Sockets : handleClear(s)
  \/ \E s \in Sockets : ServeRegisterUser(s)
  \/ \E s \in Sockets : ServeStroke(s)
  \/ \E s \in Sockets : ServeUndo(s)
  \/ \E s \in Sockets : ServeRedo(s)
  \/ \E s \in Sockets : ServeClearCanvas(s)
  \/ \E s \in Sockets : ReceiveStroke(s)
  \/ \E s \in Sockets : ReceiveSyncState(s)

SpecClient == Init /\ [][NextClient]_vars

\* every sequence of append, undo, redo and clearRedoHistory calls by the
\* participants, made on the three designs side by side (the strokes of s1
\* get either id suffix, those of s2 one)
NextDesigns ==
  \/ \E roomId \in Rooms, rnd \in Suffixes : AppendAll(roomId, "s1", rnd)
  \/ \E roomId \in Rooms : AppendAll(roomId, "s2", "a")
  \/ \E roomId \in Rooms, userId \in Sockets : UndoAll(roomId, userId)
  \/ \E roomId \in Rooms, userId \in Sockets : RedoAll(roomId, userId)
  \/ \E roomId \in Rooms, userId \in Sockets : ClearRedoHistoryAll(roomId, userId)

SpecDesigns == Init /\ [][NextDesigns]_vars

SpecFlowFair ==
  Init /\ [][NextFlow]_vars /\ WF_vars(FireTimer) /\ WF_vars(Elapse)

\* ------------------------------------------- validateStroke as a function
\* values of stroke.color, stroke.width and of one element of stroke.points
\* (a property that is missing reads as undefined)
ColorInputs == {Undefined, Str(""), Str("#000000")}
WidthInputs == {Undefined, Num(0), Num(-1), Num(2), NaN}
PointInputs ==
  {Point(0, 0), Point(10000, -10000), Point(-10000, 10000),
   Point(10001, 0), Point(0, -10001),
   Obj([x |-> Num(1)]), Obj([x |-> Str("1"), y |-> Num(1)]),
   Obj([x |-> NaN, y |-> Num(0)]), JsNull}
PointsInputs ==
  {Undefined, Str("line")}
    \cup {Arr(a) : a \in UNION {[1..n -> PointInputs] : n \in 0..MaxPoints}}

\* the arguments validateStroke is called with
Candidates ==
  {Undefined, JsNull, Num(7), Str("stroke"), Arr(<<>>)}
    \cup {Obj([color |-> c, width |-> w, points |-> p]) :
            c \in ColorInputs, w \in WidthInputs, p \in PointsInputs}

\* a candidate is chosen; nothing else has happened yet
InitValidate ==
  /\ rooms = EmptyMap
  /\ userStacks = EmptyMap
  /\ timers = <<>>
  /\ clock = 0
  /\ conn = [s \in Sockets |-> [status |-> "new", room |-> ""]]
  /\ \E stroke \in Candidates : last = Event("candidate", "", stroke, Null)
  /\ undone = NoUndo
  /\ emptySince = EmptyMap
  /\ emitted = <<>>
  /\ clients = [s \in Sockets |-> NewClient]
  /\ drafts = NewDrafts

\* stateManager.validateStroke(stroke): it returns true, returns false or throws
ValidateStroke ==
  /\ last.op = "candidate"
  /\ last' = Event("validateStroke", "", last.arg,
                   [success |-> ~validateStrokeThrows(last.arg)
                                  /\ validateStroke(last.arg),
                    threw |-> validateStrokeThrows(last.arg)])
  /\ UNCHANGED <<rooms, userStacks, timers, clock, conn, undone, emptySince,
                 emitted>>
  /\ UNCHANGED <<clients, drafts>>

SpecValidate == InitValidate /\ [][ValidateStroke]_vars

\* the room lifecycle with undo: what is left of the per-user stacks when a
\* room is evicted (one outcome of the random id suffix)
NextEvict ==
  \/ \E s \in Sockets, roomId \in Rooms : Connect(s, roomId)
  \/ \E s \in Sockets : RegisterUser(s)
  \/ \E s \in Sockets : Stroke(s, HonestStroke, "a")
  \/ \E s \in Sockets : Undo(s)
  \/ \E s \in Sockets : Disconnect(s)
  \/ FireTimer
  \/ Tick

SpecEvict == Init /\ [][NextEvict]_vars

\* ------------------------------------------------------------------ claims
\* the room a socket's events are addressed to
RoomOf(s) == conn[s].room

Occurrences(seq, x) == Cardinality({i \in 1..Len(seq) : seq[i] = x})

OwnStrokes(seq, userId) == SelectSeq(seq, LAMBDA x : x.userId = userId)

\* C1: an undo requested by p never removes from the stroke log a stroke whose
\* author differs from p, also when other users' strokes follow p's last one.
C1_UndoRemovesOnlyOwn ==
  [][\A s \in Sockets :
       (last'.op = "undo" /\ last'.sock = s) =>
         \A x \in Range(LogOf(rooms, RoomOf(s))) :
           Occurrences(LogOf(rooms', RoomOf(s)), x)
               < Occurrences(LogOf(rooms, RoomOf(s)), x)
             => x.userId = s]_vars

\* an undo succeeded and a stroke of another user now sits at the index the
\* removed stroke had: it had been appended after it
C1_Witness ==
  /\ last.op = "undo" /\ last.result.success
  /\ last.result.index <= Len(LogOf(rooms, RoomOf(last.sock)))
  /\ LogOf(rooms, RoomOf(last.sock))[last.result.index].userId # last.sock

\* C2: when p has a stroke in the log, undo removes exactly the stroke of p
\* with the highest index, pushes it on top of p's undoStack, and keeps every
\* other stroke in its previous relative order.
C2_UndoRemovesLatestOwn ==
  [][\A s \in Sockets :
       LET log == LogOf(rooms, RoomOf(s))
           own == {i \in 1..Len(log) : log[i].userId = s}
       IN (last'.op = "undo" /\ last'.sock = s /\ own # {}) =>
            \E i \in own :
              /\ \A j \in own : j <= i
              /\ Len(LogOf(rooms', RoomOf(s))) = Len(log) - 1
              /\ \A k \in 1..(Len(log) - 1) :
                   LogOf(rooms', RoomOf(s))[k] = IF k < i THEN log[k] ELSE log[k + 1]
              /\ UndoStackOf(userStacks', RoomOf(s), s)
                   = Append(UndoStackOf(userStacks, RoomOf(s), s), log[i])]_vars

\* an undo removed the later of two strokes of the same user: the earlier
\* one is still in the log and the removed one tops the undoStack
C2_Witness ==
  /\ last.op = "undo" /\ last.result.success
  /\ \E i \in 1..Len(LogOf(rooms, RoomOf(last.sock))) :
       /\ i < last.result.index
       /\ LogOf(rooms, RoomOf(last.sock))[i].userId = last.sock
       /\ LogOf(rooms, RoomOf(last.sock))[i] # last.result.stroke
  /\ LET st == UndoStackOf(userStacks, RoomOf(last.sock), last.sock)
     IN st # <<>> /\ st[Len(st)] = last.result.stroke

\* C3: undo then redo by the same user, with only other users' appends in
\* between, puts the very stroke the undo removed at the end of the log,
\* restores the user's undoStack, and the log holds the strokes it held
\* before the undo plus those appended meanwhile.
C3_UndoRedoCancels ==
  undone.status = "redone" =>
    LET log == LogOf(rooms, undone.room)
    IN /\ log # <<>>
       /\ log[Len(log)] = undone.stroke
       /\ UndoStackOf(userStacks, undone.room, undone.sock) = undone.stackBefore
       /\ Range(log) = undone.logBefore \cup undone.appended

\* a redo closed an undo across which another user appended a stroke
C3_Witness == undone.status = "redone" /\ undone.appended # {}

\* C4: canUndo(room, p) is true exactly when the log of the room holds a
\* stroke authored by p.
C4_CanUndoIffOwnStroke ==
  \A roomId \in Rooms, s \in Sockets :
    canUserUndo(rooms, userStacks, roomId, s).value
      <=> \E x \in Range(LogOf(rooms, roomId)) : x.userId = s

\* p has undone all of its strokes, another user still has one in the log
C4_Witness ==
  \E roomId \in Rooms, p \in Sockets, q \in Sockets :
    /\ UndoStackOf(userStacks, roomId, p) # <<>>
    /\ ~canUserUndo(rooms, userStacks, roomId, p).value
    /\ canUserUndo(rooms, userStacks, roomId, q).value

\* C5: canRedo(room, p) is true exactly when p's undoStack is non-empty, and
\* a redo returns a Result exactly when canRedo was true before the call.
C5_CanRedoIffUndoStack ==
  [][/\ \A roomId \in Rooms, s \in Sockets :
          canUserRedo(userStacks', roomId, s).value
            <=> Len(UndoStackOf(userStacks', roomId, s)) > 0
     /\ \A s \in Sockets :
          (last'.op = "redo" /\ last'.sock = s) =>
            (last'.result.success
               <=> canUserRedo(userStacks, RoomOf(s), s).value)]_vars

\* a redo returned a Result and the user can redo once more
C5_Witness ==
  /\ last.op = "redo" /\ last.result.success
  /\ canUserRedo(userStacks, RoomOf(last.sock), last.sock).value

\* C6: once a valid stroke of p is admitted, p's undoStack is empty: canRedo
\* is false and a redo returns null.
C6_StrokeClearsRedo ==
  (last.op = "stroke" /\ last.result.success) =>
    /\ UndoStackOf(userStacks, RoomOf(last.sock), last.sock) = <<>>
    /\ ~canUserRedo(userStacks, RoomOf(last.sock), last.sock).value
    /\ redo(rooms, userStacks, RoomOf(last.sock), last.sock).result = Null

\* p undid a stroke and then submitted a new one
C6_Witness ==
  /\ undone.status = "dropped"
  /\ last.op = "stroke" /\ last.sock = undone.sock

\* C7: a clear requested by p removes only strokes authored by p, whatever
\* payload the client sends: every other user's strokes stay in the log in
\* their order and every other user's undoStack is unchanged.
C7_ClearLeavesOthers ==
  [][\A s \in Sockets :
       (last'.op = "clear-canvas" /\ last'.sock = s) =>
         \A q \in Sockets \ {s} :
           /\ OwnStrokes(LogOf(rooms', RoomOf(s)), q)
                = OwnStrokes(LogOf(rooms, RoomOf(s)), q)
           /\ UndoStackOf(userStacks', RoomOf(s), q)
                = UndoStackOf(userStacks, RoomOf(s), q)]_vars

\* C8: after the clear request that handleClear emits (its payload carries
\* the typed name) is handled, the log holds no stroke stamped with the
\* requester's socket id and the requester's undoStack is empty.
C8_ClearRemovesOwn ==
  (last.op = "clear-canvas" /\ last.arg \in Names) =>
    /\ \A x \in Range(LogOf(rooms, RoomOf(last.sock))) : x.userId # last.sock
    /\ UndoStackOf(userStacks, RoomOf(last.sock), last.sock) = <<>>

\* C9: a room is deleted only when it has been memberless for a full grace
\* period: no cleanup check deletes it sooner after it last became empty.
C9_EvictionAfterFullGrace ==
  [][\A roomId \in Rooms :
       (roomId \in DOMAIN rooms /\ roomId \notin DOMAIN rooms') =>
         clock - emptySince[roomId] >= GracePeriod]_vars

\* C10: a room with members is never deleted: the cleanup check reads the
\* membership when it fires and removes the room only if it is empty then.
C10_OccupiedRoomNeverDeleted ==
  [][\A roomId \in Rooms :
       (roomId \in DOMAIN rooms /\ rooms[roomId].users # {}) =>
         roomId \in DOMAIN rooms']_vars

\* a cleanup check scheduled when the room was empty fired while the room
\* had a member again, and the room is still there
C10_Witness ==
  /\ last.op = "cleanup"
  /\ last.arg \in DOMAIN rooms
  /\ rooms[last.arg].users # {}

\* C11: a cleanup check that fires on a memberless room removes the room from
\* the registry, and getRoom for the same id then returns a fresh room: empty
\* stroke log, empty cursor cache, empty member set.
C11_EvictionThenFreshRoom ==
  [][\A roomId \in Rooms :
       (/\ last'.op = "cleanup" /\ last'.arg = roomId
        /\ roomId \in DOMAIN rooms /\ rooms[roomId].users = {}) =>
         /\ roomId \notin DOMAIN rooms'
         /\ LET room == getRoom(rooms', roomId)[roomId]
            IN /\ room.strokes = <<>>
               /\ room.cursors = EmptyMap
               /\ room.users = {}]_vars

\* a room that held a stroke was evicted: its last socket had left, and the
\* cleanup check found the room still memberless
C11_Witness ==
  /\ last.op = "cleanup" /\ last.result.success
  /\ last.arg \notin DOMAIN rooms
  /\ last.result.strokeCount > 0

\* C12: eviction drops the undo/redo state of the room: whenever a room id is
\* absent from the registry no user has an undoStack entry for it, canRedo
\* is false for every user, and a redo addressed to that id (which creates
\* the room anew) returns null.
C12_EvictionDropsUndoState ==
  \A roomId \in Rooms :
    roomId \notin DOMAIN rooms =>
      \A s \in Sockets :
        /\ UndoStackOf(userStacks, roomId, s) = <<>>
        /\ ~canUserRedo(userStacks, roomId, s).value
        /\ redo(rooms, userStacks, roomId, s).result = Null

\* C13: after clearRoomState the log of the room is empty and all undo/redo
\* state of the room is gone: canRedo is false for every user and no redo
\* returns a stroke.
C13_ResetDropsUndoState ==
  last.op = "clear-room" =>
    /\ LogOf(rooms, last.arg) = <<>>
    /\ \A s \in Sockets :
         /\ ~canUserRedo(userStacks, last.arg, s).value
         /\ redo(rooms, userStacks, last.arg, s).result = Null

\* the valid strokes of the specification: a record with a non-empty color,
\* a positive width and a non-empty points sequence whose points all have
\* numeric x and y within [-10000, 10000]
InRange(v) == v.t = "num" /\ v.v >= -10000 /\ v.v <= 10000

ValidStroke(c) ==
  /\ c.t = "obj"
  /\ Get(c, "color").t = "str" /\ Get(c, "color").v # ""
  /\ Get(c, "width").t = "num" /\ Get(c, "width").v > 0
  /\ Get(c, "points").t = "arr" /\ Get(c, "points").v # <<>>
  /\ \A i \in 1..Len(Get(c, "points").v) :
       /\ InRange(Get(Get(c, "points").v[i], "x"))
       /\ InRange(Get(Get(c, "points").v[i], "y"))

\* C14: validateStroke returns true for every valid stroke, the coordinate
\* bounds -10000 and 10000 included.
C14_ValidStrokeAccepted ==
  (last.op = "validateStroke" /\ ValidStroke(last.arg)) =>
    last.result.success /\ ~last.result.threw

\* a stroke with a point on both bounds was accepted
C14_Witness ==
  /\ last.op = "validateStroke" /\ ValidStroke(last.arg)
  /\ last.result.success
  /\ \E i \in 1..Len(Get(last.arg, "points").v) :
       Get(last.arg, "points").v[i] = Point(10000, -10000)

\* the candidates the specification says are rejected
RejectedBySpec(c) ==
  \/ c.t # "obj"
  \/ ~Truthy(Get(c, "color"))
  \/ Get(c, "width").t = "undefined"
  \/ Get(c, "width").t = "num" /\ Get(c, "width").v <= 0
  \/ Get(c, "points").t # "arr"
  \/ Get(c, "points").v = <<>>
  \/ \E i \in 1..Len(Get(c, "points").v) :
       LET x == Get(Get(c, "points").v[i], "x")
           y == Get(Get(c, "points").v[i], "y")
       IN \/ ~TypeofNumber(x) \/ ~TypeofNumber(y)
          \/ OutOfBounds(x) \/ OutOfBounds(y)

\* C15: validateStroke returns false for every candidate that is not a
\* record, has a missing or empty color, a missing, zero or negative width,
\* points that are missing, not a sequence or empty, a point without numeric
\* x and y, or a coordinate below -10000 or above 10000.
C15_InvalidStrokeRejected ==
  (last.op = "validateStroke" /\ RejectedBySpec(last.arg)) =>
    ~last.result.success /\ ~last.result.threw

\* C16: a stroke that validateStroke rejects is dropped without effect: the
\* handler leaves the registry (logs and membership) and every undoStack as
\* they were, the submitter's redo history included, and emits nothing.
C16_InvalidStrokeDropped ==
  [][(/\ last'.op = "stroke"
      /\ ~validateStrokeThrows(last'.arg) /\ ~validateStroke(last'.arg)) =>
       /\ rooms' = rooms
       /\ userStacks' = userStacks
       /\ emitted' = <<>>]_vars

\* a stroke was rejected while its submitter had an undone stroke to redo
\* and the log held a stroke
C16_Witness ==
  /\ last.op = "stroke" /\ last.result = Null
  /\ UndoStackOf(userStacks, RoomOf(last.sock), last.sock) # <<>>
  /\ LogOf(rooms, RoomOf(last.sock)) # <<>>

\* C17: a no-op request returns null and changes nothing observable: an undo
\* by a user with no stroke in the log, and a redo by a user whose undoStack
\* is empty, return null, leave the stroke log and the contents of every
\* user's undoStack unchanged, and emit no sync-state.
C17_NoOpChangesNothing ==
  [][\A s \in Sockets :
       LET roomId == RoomOf(s)
       IN (/\ last'.sock = s
           /\ \/ /\ last'.op = "undo"
                 /\ \A x \in Range(LogOf(rooms, roomId)) : x.userId # s
              \/ /\ last'.op = "redo"
                 /\ UndoStackOf(userStacks, roomId, s) = <<>>) =>
            /\ last'.result = Null
            /\ LogOf(rooms', roomId) = LogOf(rooms, roomId)
            /\ \A q \in Sockets :
                 UndoStackOf(userStacks', roomId, q) = UndoStackOf(userStacks, roomId, q)
            /\ \A i \in 1..Len(emitted') : emitted'[i].event # "sync-state"]_vars

\* an undo was a no-op although the log held a stroke (of another user) and
\* another user had an undone stroke to redo
C17_Witness ==
  /\ last.op = "undo" /\ last.result = Null
  /\ LogOf(rooms, RoomOf(last.sock)) # <<>>
  /\ \E q \in Sockets \ {last.sock} :
       UndoStackOf(userStacks, RoomOf(last.sock), q) # <<>>

\* C18: addStroke stamps the stroke itself: the stroke a submission of socket
\* s appends carries userId s, an id derived from s and the current time,
\* and the current time as timestamp, whatever id, userId or timestamp the
\* client put in the payload; its drawing fields are the payload's.
C18_StrokeStampedByServer ==
  [][(last'.op = "stroke" /\ last'.result.success) =>
       LET roomId == RoomOf(last'.sock)
           log == LogOf(rooms', roomId)
       IN /\ Len(log) = Len(LogOf(rooms, roomId)) + 1
          /\ log[Len(log)].userId = last'.sock
          /\ log[Len(log)].id[1] = last'.sock
          /\ log[Len(log)].id[2] = clock
          /\ log[Len(log)].timestamp = clock
          /\ log[Len(log)].points = Get(last'.arg, "points")]_vars

\* s1 submitted the payload that names s2 as author and carries an id and a
\* timestamp of its own; the stroke was admitted
C18_Witness ==
  /\ last.op = "stroke" /\ last.result.success
  /\ last.arg = ForgedStroke /\ last.sock = "s1"
  /\ Get(last.arg, "userId") # last.sock
  /\ Get(last.arg, "timestamp") # clock

\* the strokes a room holds: those of its log and of its users' undoStacks
Held(R, S, roomId) ==
  Range(LogOf(R, roomId))
    \cup UNION {Range(UndoStackOf(S, roomId, s)) : s \in Sockets}

\* C19: a stroke's id, author and timestamp never change after admission:
\* every stroke a room holds after a step is, field for field, a stroke it
\* held before or the stroke just admitted, no step gives a held stroke a new
\* id, and redo appends to the log exactly the stroke that topped the undoStack.
C19_StrokeIdentityKept ==
  [][\A roomId \in Rooms :
       /\ \A x \in Held(rooms', userStacks', roomId) :
            \/ x \in Held(rooms, userStacks, roomId)
            \/ /\ last'.op = "stroke" /\ last'.result.success
               /\ x = last'.result.stroke
       /\ \A s \in Sockets :
            (last'.op = "redo" /\ last'.sock = s /\ RoomOf(s) = roomId
              /\ UndoStackOf(userStacks, roomId, s) # <<>>) =>
              LET st == UndoStackOf(userStacks, roomId, s)
              IN LogOf(rooms', roomId) = Append(LogOf(rooms, roomId), st[Len(st)])]_vars

\* a redo restored a stroke admitted at an earlier time
C19_Witness ==
  /\ last.op = "redo" /\ last.result.success
  /\ last.result.stroke.timestamp < clock
  /\ last.result.stroke \in Range(LogOf(rooms, RoomOf(last.sock)))

\* C20: undo/redo state is personal: an undo, redo or stroke of user p
\* leaves the undoStack of every other user q of the room unchanged, and a
\* redo of q puts back only a stroke of q, never one that p removed.
C20_UndoStateIsPersonal ==
  [][\A p \in Sockets :
       (last'.sock = p /\ last'.op \in {"undo", "redo", "stroke"}) =>
         /\ \A q \in Sockets \ {p} :
              UndoStackOf(userStacks', RoomOf(p), q)
                = UndoStackOf(userStacks, RoomOf(p), q)
         /\ last'.op = "redo" =>
              \A x \in Range(LogOf(rooms', RoomOf(p))) :
                Occurrences(LogOf(rooms', RoomOf(p)), x)
                    > Occurrences(LogOf(rooms, RoomOf(p)), x)
                  => /\ x.userId = p
                     /\ x \in Range(UndoStackOf(userStacks, RoomOf(p), p))]_vars

\* q redid a stroke while p still had an undone stroke of its own waiting
C20_Witness ==
  /\ last.op = "redo" /\ last.result.success
  /\ \E p \in Sockets \ {last.sock} :
       /\ UndoStackOf(userStacks, RoomOf(last.sock), p) # <<>>
       /\ \A x \in Range(UndoStackOf(userStacks, RoomOf(last.sock), p)) :
            x.userId = p /\ x # last.result.stroke

\* C21: on a successful stroke of p the stamped stroke is emitted to every
\* other socket of the room and not to p, and the redo-state false signal
\* reaches p only: no other socket q receives it.
C21_RedoResetToAuthorOnly ==
  [][(last'.op = "stroke" /\ last'.result.success) =>
       LET p == last'.sock
           got(q, event) == {i \in 1..Len(emitted') :
                               /\ emitted'[i].event = event
                               /\ q \in Receivers(conn', emitted'[i], p)}
       IN /\ \A q \in Receivers(conn', Emit("", "others", RoomOf(p), ""), p) :
               \E i \in got(q, "stroke") :
                 emitted'[i].payload = last'.result.stroke
          /\ got(p, "stroke") = {}
          /\ \E i \in got(p, "redo-state") : emitted'[i].payload = FALSE
          /\ \A q \in Sockets \ {p} : got(q, "redo-state") = {}]_vars

\* all that the registry and the state manager hold for one room
RoomView(R, S, roomId) ==
  [room |-> IF roomId \in DOMAIN R THEN <<R[roomId]>> ELSE <<>>,
   stacks |-> IF roomId \in DOMAIN S THEN <<S[roomId]>> ELSE <<>>]

\* the room the event that was handled last is addressed to ("" for a tick)
Addressed(ev, C) ==
  IF ev.op \in {"connection", "cleanup", "clear-room", "room-stats",
                "add-user", "remove-user", "remove-cursor", "all-stats"}
  THEN ev.arg
  ELSE IF ev.sock \in Sockets THEN C[ev.sock].room
  ELSE ""

\* C22: an operation addressed to one room never changes another room: the
\* stroke log, member set, cursor cache and all undo/redo stacks of every
\* other room are the same after the step as before it.
C22_RoomsAreIsolated ==
  [][\A roomId \in Rooms \cup {OtherRoom} :
       roomId # Addressed(last', conn') =>
         RoomView(rooms', userStacks', roomId) = RoomView(rooms, userStacks, roomId)]_vars

\* an undo changed one room while the other room held a stroke, a member
\* and an undone stroke
C22_Witness ==
  /\ last.op = "undo" /\ last.result.success
  /\ \E roomId \in (Rooms \cup {OtherRoom}) \ {RoomOf(last.sock)} :
       /\ LogOf(rooms, roomId) # <<>>
       /\ UserList(rooms, roomId) # {}
       /\ \E q \in Sockets : UndoStackOf(userStacks, roomId, q) # <<>>

\* C23: on register-user exactly one sync-state is emitted, to the joining
\* socket only; it carries the whole stroke log of the room in log order,
\* strokes of all authors included, and the canRedo of the joining socket.
C23_JoinSyncsJoinerOnly ==
  [][last'.op = "register-user" =>
       LET s == last'.sock
           syncs == {i \in 1..Len(emitted') : emitted'[i].event = "sync-state"}
       IN /\ Cardinality(syncs) = 1
          /\ \A i \in syncs :
               /\ Receivers(conn', emitted'[i], s) = {s}
               /\ emitted'[i].payload.strokes = LogOf(rooms', RoomOf(s))
               /\ emitted'[i].payload.strokes = LogOf(rooms, RoomOf(s))
               /\ emitted'[i].payload.canRedo
                    = canUserRedo(userStacks', RoomOf(s), s).value]_vars

\* a socket joined a room whose log held strokes of two authors; the joiner
\* could redo and the other socket could not
C23_Witness ==
  /\ last.op = "register-user" /\ last.result.canRedo
  /\ \E q \in Sockets \ {last.sock} :
       /\ Connected(q)
       /\ ~canUserRedo(userStacks, RoomOf(last.sock), q).value
       /\ \E x \in Range(LogOf(rooms, RoomOf(last.sock))) : x.userId = q
  /\ \E x \in Range(LogOf(rooms, RoomOf(last.sock))) : x.userId = last.sock

\* C24: no operation ends in an error: whatever was called last completed
\* with a value or as a no-op, it did not throw.
C24_NoOperationThrows ==
  "threw" \in DOMAIN last.result => ~last.result.threw

\* C25: the stroke log shrinks only through undo, clear, reset or eviction:
\* an admitted stroke and a redo add exactly one stroke at the end and keep
\* every earlier stroke at its index; join, leave, cursor and statistics
\* operations leave the log as it is; any step after which the old log is
\* not a prefix of the new one is an undo, a clear, a reset or a cleanup.
C25_LogAppendOnly ==
  [][\A roomId \in Rooms :
       LET log == LogOf(rooms, roomId)
           logAfter == LogOf(rooms', roomId)
           kept == Len(logAfter) >= Len(log)
                     /\ SubSeq(logAfter, 1, Len(log)) = log
       IN /\ (/\ last'.op \in {"stroke", "redo"} /\ last'.result.success
               /\ Addressed(last', conn') = roomId) =>
                kept /\ Len(logAfter) = Len(log) + 1
          /\ last'.op \in {"connection", "register-user", "disconnect",
                            "cursor-move", "room-stats"} =>
                logAfter = log
          /\ ~kept => last'.op \in {"undo", "clear-canvas", "clear-room",
                                    "cleanup"}]_vars

\* a redo put a stroke back behind a stroke of another user
C25_Witness ==
  /\ last.op = "redo" /\ last.result.success
  /\ LET log == LogOf(rooms, RoomOf(last.sock))
     IN /\ Len(log) >= 2
        /\ log[Len(log)] = last.result.stroke
        /\ log[1].userId # last.sock

\* C26: the undoStack is last-in-first-out: when p redoes twice in a row
\* after undoing twice, the first redo having put back the stroke undone
\* last, the second redo puts the stroke undone before it right behind it:
\* the two strokes are back in the order they had, p's undoStack holds what
\* it held before the first of the two undos, and the rest of the log keeps
\* its order.
C26_UndoStackIsLifo ==
  [][\A p \in Sockets :
       (/\ last'.op = "redo" /\ last'.sock = p /\ last'.result.success
        /\ last.op = "redo" /\ last.sock = p /\ last.result.success
        /\ undone.status = "redone" /\ undone.sock = p
        /\ undone.stackBefore # <<>>) =>
         LET log == LogOf(rooms, RoomOf(p))
             logAfter == LogOf(rooms', RoomOf(p))
             n == Len(logAfter)
             before == undone.stackBefore
         IN /\ n = Len(log) + 1
            /\ SubSeq(logAfter, 1, n - 1) = log
            /\ logAfter[n - 1] = undone.stroke
            /\ logAfter[n] = before[Len(before)]
            /\ UndoStackOf(userStacks', RoomOf(p), p)
                 = SubSeq(before, 1, Len(before) - 1)]_vars

\* two different strokes of p were undone and both redone: they close the
\* log behind a stroke of another user, and p's undoStack is empty again
C26_Witness ==
  /\ last.op = "redo" /\ last.result.success
  /\ LET p == last.sock
         log == LogOf(rooms, RoomOf(p))
         n == Len(log)
     IN /\ n >= 3
        /\ log[n - 1] # log[n]
        /\ RedoStackOf(userStacks, RoomOf(p), p) = <<log[n - 1], log[n]>>
        /\ UndoStackOf(userStacks, RoomOf(p), p) = <<>>
        /\ log[1].userId # p

\* C27: the Result of a successful undo or redo of p and the sync-state
\* built from it carry the state after the operation: the stroke list is the
\* log after it and the flags are canUndo(room, p) and canRedo(room, p)
\* evaluated after it; canRedo is true after an undo and canUndo after a redo.
C27_ResultIsPostState ==
  [][\A p \in Sockets :
       (last'.op \in {"undo", "redo"} /\ last'.sock = p /\ last'.result.success) =>
         LET roomId == RoomOf(p)
             result == last'.result
         IN /\ result.strokes = LogOf(rooms', roomId)
            /\ result.canUndo = canUserUndo(rooms', userStacks', roomId, p).value
            /\ result.canRedo = canUserRedo(userStacks', roomId, p).value
            /\ emitted' = <<Emit("sync-state", "room", roomId,
                                 [strokes |-> LogOf(rooms', roomId),
                                  userId |-> p,
                                  canUndo |-> result.canUndo,
                                  canRedo |-> result.canRedo])>>
            /\ last'.op = "undo" => result.canRedo
            /\ last'.op = "redo" => result.canUndo]_vars

\* p undid its only stroke in the log: the Result says it cannot undo and
\* can redo, and the log it carries still holds a stroke of another user
C27_Witness ==
  /\ last.op = "undo" /\ last.result.success
  /\ ~last.result.canUndo /\ last.result.canRedo
  /\ last.result.strokes # <<>>
  /\ last.result.strokes = LogOf(rooms, RoomOf(last.sock))

\* C28: handlers run one at a time: in every interleaving of the stroke,
\* undo, redo and clear events of several sockets, the index an undo found
\* in its backward scan is still the place of the requester's most recent
\* stroke when the removal happens: the stroke removed is the one at the
\* highest index of the log, as it is when the undo is handled, that the
\* requester authored, and the log loses exactly that entry.
C28_UndoSeesCurrentLog ==
  [][\A s \in Sockets :
       (last'.op = "undo" /\ last'.sock = s /\ last'.result.success) =>
         LET log == LogOf(rooms, RoomOf(s))
             index == last'.result.index
         IN /\ index \in 1..Len(log)
            /\ log[index] = last'.result.stroke
            /\ log[index].userId = s
            /\ \A j \in (index + 1)..Len(log) : log[j].userId # s
            /\ LogOf(rooms', RoomOf(s)) = RemoveAt(log, index)]_vars

\* an undo was handled right after a stroke of the same socket had been
\* admitted behind an earlier stroke of it, and removed the later one
C28_Witness ==
  /\ last.op = "undo" /\ last.result.success
  /\ last.result.index >= 2
  /\ \E x \in Range(LogOf(rooms, RoomOf(last.sock))) :
       x.userId = last.sock /\ x # last.result.stroke
  /\ \E q \in Sockets \ {last.sock} : Connected(q)

\* C29: addUser is idempotent and creates the room on demand: afterwards the
\* user is a member, the other members, the log and the cursors of the room
\* are as before, nothing outside the room changes, a call for a user who
\* is a member changes nothing at all, and a call for an unknown room id
\* leaves an empty room whose only member is the user.
C29_AddUserIdempotent ==
  [][last'.op = "add-user" =>
       LET roomId == last'.arg
           userId == last'.sock
       IN /\ roomId \in DOMAIN rooms'
          /\ rooms'[roomId].users = UserList(rooms, roomId) \cup {userId}
          /\ Cardinality(rooms'[roomId].users)
               = Cardinality(UserList(rooms, roomId))
                   + (IF userId \in UserList(rooms, roomId) THEN 0 ELSE 1)
          /\ rooms'[roomId].strokes = LogOf(rooms, roomId)
          /\ userId \in UserList(rooms, roomId) => rooms' = rooms
          /\ roomId \notin DOMAIN rooms =>
               /\ rooms'[roomId].users = {userId}
               /\ rooms'[roomId].strokes = <<>>
               /\ rooms'[roomId].cursors = EmptyMap
          /\ roomId \in DOMAIN rooms =>
               rooms'[roomId].cursors = rooms[roomId].cursors
          /\ \A r \in DOMAIN rooms' \ {roomId} : r \in DOMAIN rooms /\ rooms'[r] = rooms[r]
          /\ DOMAIN rooms' = DOMAIN rooms \cup {roomId}
          /\ UNCHANGED <<userStacks, timers>>]_vars

\* addUser was called for a user who already was a member of a room that
\* holds a stroke and a second member
C29_Witness ==
  /\ last.op = "add-user" /\ last.result.already
  /\ LogOf(rooms, last.arg) # <<>>
  /\ Cardinality(UserList(rooms, last.arg)) = 2

\* C30: removeUser on an existing room, called directly or by the disconnect
\* handler, removes the user from the member set and from the cursor cache;
\* the stroke log, the other members and the other cached cursors of the
\* room are unchanged, and the room stays in the registry.
C30_RemoveUserDropsMemberAndCursor ==
  [][(last'.op \in {"remove-user", "disconnect"}
        /\ Addressed(last', conn') \in DOMAIN rooms) =>
       LET roomId == Addressed(last', conn')
           userId == last'.sock
       IN /\ roomId \in DOMAIN rooms'
          /\ userId \notin rooms'[roomId].users
          /\ userId \notin DOMAIN rooms'[roomId].cursors
          /\ rooms'[roomId].users = rooms[roomId].users \ {userId}
          /\ DOMAIN rooms'[roomId].cursors
               = DOMAIN rooms[roomId].cursors \ {userId}
          /\ \A q \in DOMAIN rooms'[roomId].cursors :
               rooms'[roomId].cursors[q] = rooms[roomId].cursors[q]
          /\ rooms'[roomId].strokes = rooms[roomId].strokes]_vars

\* removeUser took a member with a cached cursor out of a room that holds a
\* stroke and keeps another member whose cursor is still cached
C30_Witness ==
  /\ last.op = "remove-user"
  /\ last.result.member /\ last.result.cursor
  /\ LogOf(rooms, last.arg) # <<>>
  /\ \E q \in UserList(rooms, last.arg) \ {last.sock} :
       q \in DOMAIN rooms[last.arg].cursors

\* C31: on a room id that is not in the registry removeUser, removeCursor
\* and getRoomStats change nothing: the room is not created, no cleanup
\* timer is scheduled, and getRoomStats returns null. The statistics calls
\* never change the registry; getRoomStats of an existing room reports the
\* size of its member set and the length of its log, and getAllRoomsStats
\* has exactly one such entry per room of the registry.
C31_AbsentRoomNoOps ==
  [][/\ (last'.op \in {"remove-user", "remove-cursor", "room-stats"}
          /\ last'.arg \notin DOMAIN rooms) =>
         /\ UNCHANGED <<rooms, timers, userStacks>>
         /\ ~last'.result.success
     /\ last'.op \in {"room-stats", "all-stats"} =>
         UNCHANGED <<rooms, timers, userStacks>>
     /\ (last'.op = "room-stats" /\ last'.arg \in DOMAIN rooms) =>
         /\ last'.result.success
         /\ last'.result.id = last'.arg
         /\ last'.result.userCount = Cardinality(rooms[last'.arg].users)
         /\ last'.result.strokeCount = Len(rooms[last'.arg].strokes)
     /\ last'.op = "all-stats" =>
         /\ DOMAIN last'.result.stats = DOMAIN rooms
         /\ \A r \in DOMAIN rooms :
              /\ last'.result.stats[r].success
              /\ last'.result.stats[r].userCount = Cardinality(rooms[r].users)
              /\ last'.result.stats[r].strokeCount = Len(rooms[r].strokes)]_vars

\* removeCursor was called for a room id that is not in the registry while
\* another room with a member and a stroke is
C31_Witness ==
  /\ last.op = "remove-cursor"
  /\ last.arg \notin DOMAIN rooms
  /\ \E r \in DOMAIN rooms : rooms[r].users # {} /\ rooms[r].strokes # <<>>

\* the cleanup timers pending for a room
PendingChecks(roomId) == {i \in DOMAIN timers : timers[i].roomId = roomId}

\* C32: eviction checks do not accumulate: at most one cleanup timer is
\* pending for a room at any time, also when the room empties, regains a
\* member and empties again.
C32_AtMostOnePendingCheck ==
  \A roomId \in Rooms : Cardinality(PendingChecks(roomId)) <= 1

\* C33: every stroke held in the undoStack of a participant for a room was
\* authored by that participant.
C33_UndoStackHoldsOwnStrokes ==
  \A roomId \in Rooms, p \in Sockets :
    \A i \in DOMAIN UndoStackOf(userStacks, roomId, p) :
      UndoStackOf(userStacks, roomId, p)[i].userId = p

\* s1 has just undone a stroke of its own while a stroke of s2 is in the log
C33_Witness ==
  /\ last.op = "undo" /\ last.sock = "s1" /\ last.result.success
  /\ UndoStackOf(userStacks, "r1", "s1") # <<>>
  /\ \E i \in DOMAIN LogOf(rooms, "r1") : LogOf(rooms, "r1")[i].userId = "s2"

\* no stroke id occurs twice in the log of the room, twice across the
\* undoStacks of the room, or in the log and in an undoStack
IdsUnique(R, S, roomId) ==
  LET log == LogOf(R, roomId)
      st(p) == UndoStackOf(S, roomId, p)
  IN /\ \A i, j \in DOMAIN log : i # j => log[i].id # log[j].id
     /\ \A p, q \in Sockets : \A i \in DOMAIN st(p), j \in DOMAIN st(q) :
          (p # q \/ i # j) => st(p)[i].id # st(q)[j].id
     /\ \A i \in DOMAIN log, p \in Sockets : \A j \in DOMAIN st(p) :
          log[i].id # st(p)[j].id

\* C34: in every reachable state each admitted stroke is in at
\* most one place: no id twice in a log, no id twice across the undoStacks,
\* no stroke both in the log and in an undoStack.
C34_EachStrokeInOnePlace ==
  \A roomId \in Rooms : IdsUnique(rooms, userStacks, roomId)

\* the number of strokes of a participant in the log of the room
OwnInLog(R, roomId, p) == Len(OwnStrokes(LogOf(R, roomId), p))

\* C35: undo and redo conserve a participant's strokes: a successful undo
\* of p moves exactly one stroke of p from the log to p's undoStack, a
\* successful redo exactly one from the undoStack to the log, and no
\* operation of another participant other than a clear changes the number
\* of strokes p has in the log plus in its undoStack.
C35_UndoRedoConserveStrokes ==
  [][\A roomId \in Rooms, p \in Sockets :
       LET own == OwnInLog(rooms, roomId, p)
           ownNext == OwnInLog(rooms', roomId, p)
           stack == Len(UndoStackOf(userStacks, roomId, p))
           stackNext == Len(UndoStackOf(userStacks', roomId, p))
       IN /\ (last'.op = "undo" /\ last'.sock = p /\ last'.result.success
                /\ conn[p].room = roomId) =>
               /\ ownNext = own - 1 /\ stackNext = stack + 1
               /\ Len(LogOf(rooms', roomId)) = Len(LogOf(rooms, roomId)) - 1
          /\ (last'.op = "redo" /\ last'.sock = p /\ last'.result.success
                /\ conn[p].room = roomId) =>
               /\ ownNext = own + 1 /\ stackNext = stack - 1
               /\ Len(LogOf(rooms', roomId)) = Len(LogOf(rooms, roomId)) + 1
          /\ (last'.sock \in Sockets \ {p} /\ last'.op # "clear-canvas") =>
               ownNext + stackNext = own + stack]_vars

\* s2 has redone a stroke into a log that holds a stroke of s1, while s1
\* has a stroke in its undoStack
C35_Witness ==
  /\ last.op = "redo" /\ last.sock = "s2" /\ last.result.success
  /\ OwnInLog(rooms, "r1", "s1") > 0
  /\ UndoStackOf(userStacks, "r1", "s1") # <<>>

\* C36: every room of the registry whose member set is empty has at least
\* one cleanup timer pending, also a room created on demand by getRoom
\* without a member ever being added or after an earlier eviction.
C36_EmptyRoomHasPendingCheck ==
  \A roomId \in DOMAIN rooms :
    rooms[roomId].users = {} => PendingChecks(roomId) # {}

\* no socket is attached to the room
Quiet(roomId) ==
  \A s \in Sockets : conn[s].status = "connected" => conn[s].room # roomId

\* C37: when the cleanup timers are run fairly, a room to which from some
\* point on no socket is attached is eventually removed from the registry
\* and stays removed, whether or not its sockets ever registered.
C37_QuietRoomEventuallyEvicted ==
  \A roomId \in Rooms :
    <>[]Quiet(roomId) => <>[](roomId \notin DOMAIN rooms)

\* the cleanup timer has deleted a room that held a stroke, after both
\* sockets have disconnected
C37_Witness ==
  /\ \A s \in Sockets : conn[s].status = "gone"
  /\ last.op = "cleanup" /\ last.result.success /\ last.result.strokeCount > 0
  /\ rooms = EmptyMap

\* what a stroke draws, for an entry of strokesRef (the browser's own object
\* or one received from the server) and for a stroke of the log
Drawn(x) ==
  LET f == IF "f" \in DOMAIN x THEN x.f ELSE x
  IN <<f.color, f.width, f.points>>

\* how many entries of the sequence draw d
Copies(seq, d) == Cardinality({i \in DOMAIN seq : Drawn(seq[i]) = d})

\* the two sequences hold the same strokes, as many times each
SameStrokes(seq1, seq2) ==
  \A d \in {Drawn(x) : x \in Range(seq1) \cup Range(seq2)} :
    Copies(seq1, d) = Copies(seq2, d)

\* every message sent was handled and every message emitted was received
Delivered == \A s \in Sockets : clients[s].outbox = <<>> /\ clients[s].inbox = <<>>

\* C38: once all messages are delivered, the strokesRef of every registered
\* member holds exactly the strokes of the server's room log.
C38_ClientViewsConverge ==
  Delivered =>
    \A roomId \in Rooms : \A s \in UserList(rooms, roomId) :
      SameStrokes(clients[s].strokes, LogOf(rooms, roomId))

\* what a caller sees of an undo or redo: null or a result, the log in the
\* result and the stroke moved
Outcome(result) ==
  IF result.success THEN <<TRUE, result.strokes, result.stroke>> ELSE <<FALSE>>

\* C39: after every sequence of append, undo, redo and clearRedoHistory
\* calls the room-keyed design, the per-user design and the canonical
\* design hold the same stroke log, answer canUserRedo alike for every
\* participant, and gave the same outcome to the undo or redo made last.
C39_DesignsAgree ==
  /\ \A roomId \in Rooms :
       /\ LogOf(drafts.shared.rooms, roomId) = LogOf(rooms, roomId)
       /\ LogOf(drafts.perUser.rooms, roomId) = LogOf(rooms, roomId)
       /\ \A p \in Sockets :
            /\ canUserRedoShared(drafts.shared.redoHistory, roomId, p)
                 = canUserRedo(userStacks, roomId, p).value
            /\ canUserRedoPerUser(drafts.perUser.redoHistory, roomId, p)
                 = canUserRedo(userStacks, roomId, p).value
  /\ last.op \in {"undo-all", "redo-all"} =>
       /\ Outcome(last.result.shared) = Outcome(last.result.canonical)
       /\ Outcome(last.result.perUser) = Outcome(last.result.canonical)

\* a redo of s1 succeeded on a shared list that held an entry of s1, then
\* one of s2, then the one of s1 that was redone
C39_Witness ==
  /\ last.op = "redo-all" /\ last.sock = "s1" /\ last.result.success
  /\ \E roomId \in DOMAIN drafts.shared.redoHistory :
       LET redoStack == drafts.shared.redoHistory[roomId]
       IN /\ Len(redoStack) = 2
          /\ redoStack[1].userId = "s1"
          /\ redoStack[2].userId = "s2"

====
